---- MODULE Spec2Model ----
(***************************************************************************)
(* A model of the 2048 challenge: the GameBoard (grid of GamePiece         *)
(* references, shift/merge engine, clone), the GamePiece objects (a heap   *)
(* of values, mutated in place by upgrade), the GameController             *)
(* (startGame, key presses, AI recommendation clicks) and the GameAgent    *)
(* (expectimax search over cloned boards).                                 *)
(*                                                                         *)
(* JavaScript objects are modelled by references: a GamePiece is an index  *)
(* into heap (the sequence of the value fields of the pieces allocated so  *)
(* far), a grid is an array of rows of references (Null for null).  Array  *)
(* indices are 0-based in the code and 1-based here: grid[r + 1][c + 1].   *)
(***************************************************************************)
EXTENDS Integers, Sequences, FiniteSets, TLC

(***************************************************************************)
(* Bounds of the model.                                                    *)
(***************************************************************************)
\* largest board size of the boards drawn for the shift engine
MaxSize == 3
\* board size of the boards of the controller, the clone and the agent runs
SmallSize == 2
\* drawn boards hold pieces of value 2^1 .. 2^MaxExp
MaxExp == 2
\* number of board operations applied in a row to a drawn board
MaxOps == 2
\* config.gameWinValue is 2^WinExp
WinExp == 3
\* getRandomEmptyCoordinates is called with counts 0..MaxCount
MaxCount == 4
\* config.gameAgentSearchDepth
SearchDepth == 2

\* config.gameWinValue, also the agent's targetValue (main.ts)
gameWinValue == 2 ^ WinExp

\* config.gameBoardGridSize
gameBoardGridSize == SmallSize

\* config.startingPieceCount: cryptoRandomInt(2, 6), drawn when the
\* configuration is loaded
startingPieceCounts == 2..6

(***************************************************************************)
(* Values and references.                                                  *)
(***************************************************************************)
\* null of (IGamePiece | null): no reference
Null == 0

\* "no coordinate": null of (GridCoordinate | null)
NoCoordinate == [rowIndex |-> -1, columnIndex |-> -1]

\* enum ShiftDirection, in declaration order
ShiftDirection == <<"Down", "Left", "Right", "Up">>

DirectionSet == {ShiftDirection[i] : i \in 1..Len(ShiftDirection)}

\* the values of the pieces of drawn boards
DrawnValues == {2 ^ e : e \in 1..MaxExp}

\* a constructor whose less likely random value is 3
GamePieceRandomValuesOdd == {2, 3}

\* new GamePiece(): the random value is 2 (cryptoRandom() < 0.9) or 4
GamePieceRandomValues == {2, 4}

\* new GamePiece(value) : allocates a piece, returns the new heap;
\* the reference of the new piece is Len of the result
GamePiece(heap, value) == Append(heap, value)

\* piece.upgrade(): doubles the value in place
\* an upgrade that multiplies the value by four
upgradeQuadrupling(heap, piece) == [heap EXCEPT ![piece] = 4 * @]

upgrade(heap, piece) == [heap EXCEPT ![piece] = 2 * @]

\* piece.clone(): an independent piece with the same value
pieceClone(heap, piece) == GamePiece(heap, heap[piece])

(***************************************************************************)
(* GameBoard: the cell operations.                                         *)
(***************************************************************************)
\* new GameBoard(size): size rows of size nulls
GameBoard(size) == [r \in 1..size |-> [c \in 1..size |-> Null]]

\* new GameBoard(size) for any integer: Array(size) throws a RangeError
\* for a negative length and gives the empty array for 0
GameBoardOutcome(size) ==
    IF size < 0 THEN [threw |-> TRUE, grid |-> <<>>]
    ELSE [threw |-> FALSE, grid |-> GameBoard(size)]

Coordinates(size) ==
    {[rowIndex |-> r, columnIndex |-> c] : r \in 0..(size - 1), c \in 0..(size - 1)}

getGamePieceByCoordinate(grid, coordinate) ==
    grid[coordinate.rowIndex + 1][coordinate.columnIndex + 1]

placeGamePiece(grid, piece, coordinate) ==
    [grid EXCEPT ![coordinate.rowIndex + 1][coordinate.columnIndex + 1] = piece]

\* a removal that leaves the piece in its cell
removeGamePieceKeepingPiece(grid, coordinate) == grid

removeGamePiece(grid, coordinate) ==
    [grid EXCEPT ![coordinate.rowIndex + 1][coordinate.columnIndex + 1] = Null]

moveGamePieceWithoutTest(grid, fromCoordinate, toCoordinate) ==
    placeGamePiece(removeGamePiece(grid, fromCoordinate),
                   getGamePieceByCoordinate(grid, fromCoordinate), toCoordinate)

moveGamePiece(grid, fromCoordinate, toCoordinate) ==
    LET gamePiece == getGamePieceByCoordinate(grid, fromCoordinate)
    IN  IF gamePiece # Null
        THEN placeGamePiece(removeGamePiece(grid, fromCoordinate), gamePiece, toCoordinate)
        ELSE grid

isValidGridCoordinate(size, coordinate) ==
    /\ coordinate.rowIndex >= 0
    /\ coordinate.rowIndex < size
    /\ coordinate.columnIndex >= 0
    /\ coordinate.columnIndex < size

\* the value of the piece in a cell, 0 for an empty cell
ValueAt(grid, heap, coordinate) ==
    LET piece == getGamePieceByCoordinate(grid, coordinate)
    IN  IF piece = Null THEN 0 ELSE heap[piece]

\* the grid of piece values (what getGrid() shows to a reader of .value)
Values(grid, heap) ==
    [r \in 1..Len(grid) |->
        [c \in 1..Len(grid[r]) |->
            IF grid[r][c] = Null THEN 0 ELSE heap[grid[r][c]]]]

\* getEmptyCoordinates(): the empty cells in row-major order
RECURSIVE getEmptyCoordinatesFrom(_, _, _)
getEmptyCoordinatesFrom(grid, size, k) ==
    IF k >= size * size THEN <<>>
    ELSE LET coordinate == [rowIndex |-> k \div size, columnIndex |-> k % size]
             rest == getEmptyCoordinatesFrom(grid, size, k + 1)
         IN  IF getGamePieceByCoordinate(grid, coordinate) = Null
             THEN <<coordinate>> \o rest
             ELSE rest

getEmptyCoordinates(grid, size) == getEmptyCoordinatesFrom(grid, size, 0)

\* a scan whose comparison is reversed: the least value of the board
findMaxValueReversed(grid, heap, size) ==
    LET vs == {ValueAt(grid, heap, co) : co \in Coordinates(size)} \ {0}
    IN  CHOOSE v \in vs \cup {0} : (v = 0 /\ vs = {}) \/ (v \in vs /\ \A w \in vs : v <= w)

\* findMaxValueGamePiece()?.value ?? 0 : the greatest value, 0 on an empty board
findMaxValue(grid, heap, size) ==
    LET vs == {ValueAt(grid, heap, co) : co \in Coordinates(size)}
    IN  CHOOSE v \in vs \cup {0} : \A w \in vs : w <= v

(***************************************************************************)
(* The accessors with a coordinate of any kind.  The code indexes          *)
(* this.#grid[rowIndex][columnIndex] without a test: with a rowIndex that   *)
(* is no row, this.#grid[rowIndex] is undefined and reading or writing a   *)
(* property of it throws a TypeError; with a row and a columnIndex that is *)
(* no cell of it, a read gives undefined and a write adds the property to  *)
(* the row.  An outcome is [threw, grid, value]: whether the call threw,   *)
(* the grid after it, and the value returned.                              *)
(***************************************************************************)
\* undefined, which is no piece reference
Undefined == -1

\* the coordinates with indexes from -1 to size
AnyCoordinates(size) ==
    {[rowIndex |-> r, columnIndex |-> c] : r \in (-1)..size, c \in (-1)..size}

\* this.#grid[coordinate.rowIndex] is a row
hasRow(grid, coordinate) == (coordinate.rowIndex + 1) \in DOMAIN grid

\* this.#grid[rowIndex][columnIndex] = value
assignCell(grid, coordinate, value) ==
    IF ~hasRow(grid, coordinate)
    THEN [threw |-> TRUE, grid |-> grid, value |-> Undefined]
    ELSE [threw |-> FALSE,
          grid |-> [grid EXCEPT ![coordinate.rowIndex + 1] =
                       [k \in (DOMAIN grid[coordinate.rowIndex + 1])
                                 \cup {coordinate.columnIndex + 1} |->
                           IF k = coordinate.columnIndex + 1 THEN value
                           ELSE grid[coordinate.rowIndex + 1][k]]],
          value |-> Undefined]

getGamePieceByCoordinateOutcome(grid, coordinate) ==
    IF ~hasRow(grid, coordinate)
    THEN [threw |-> TRUE, grid |-> grid, value |-> Undefined]
    ELSE [threw |-> FALSE, grid |-> grid,
          value |-> IF (coordinate.columnIndex + 1)
                          \in DOMAIN grid[coordinate.rowIndex + 1]
                    THEN grid[coordinate.rowIndex + 1][coordinate.columnIndex + 1]
                    ELSE Undefined]

placeGamePieceOutcome(grid, piece, coordinate) == assignCell(grid, coordinate, piece)

removeGamePieceOutcome(grid, coordinate) == assignCell(grid, coordinate, Null)

moveGamePieceOutcome(grid, fromCoordinate, toCoordinate) ==
    LET afterRead(read) ==
            IF read.threw \/ read.value \in {Null, Undefined}
            THEN [read EXCEPT !.value = Undefined]
            ELSE placeGamePieceOutcome(removeGamePieceOutcome(grid, fromCoordinate).grid,
                                       read.value, toCoordinate)
    IN  afterRead(getGamePieceByCoordinateOutcome(grid, fromCoordinate))

(***************************************************************************)
(* GameBoard.hasValidMoves                                                 *)
(***************************************************************************)
\* a test that always finds a valid move
hasValidMovesAlways(grid, heap, size) == TRUE

\* the older revision of hasValidMoves compared the pieces, not their values
hasValidMovesByIdentity(grid, heap, size) ==
    LET lastIndex == size - 1
    IN  \E rowIndex \in 0..lastIndex, columnIndex \in 0..lastIndex :
            LET row == grid[rowIndex + 1]
            IN  \/ row[columnIndex + 1] = Null
                \/ /\ columnIndex < lastIndex
                   /\ row[columnIndex + 1] = row[columnIndex + 2]
                \/ /\ rowIndex < lastIndex
                   /\ row[columnIndex + 1] = grid[rowIndex + 2][columnIndex + 1]

hasValidMoves(grid, heap, size) ==
    LET lastIndex == size - 1
        \* piece?.value : the value, or undefined (here -1) for null
        value(piece) == IF piece = Null THEN -1 ELSE heap[piece]
    IN  \E rowIndex \in 0..lastIndex, columnIndex \in 0..lastIndex :
            LET row == grid[rowIndex + 1]
            IN  \/ row[columnIndex + 1] = Null
                \/ /\ columnIndex < lastIndex
                   /\ value(row[columnIndex + 1]) = value(row[columnIndex + 2])
                \/ /\ rowIndex < lastIndex
                   /\ value(row[columnIndex + 1]) =
                          value(grid[rowIndex + 2][columnIndex + 1])

(***************************************************************************)
(* GameBoard.shift                                                         *)
(***************************************************************************)
\* a step function with the signs of the two horizontal directions swapped
updateCoordinateByDirectionSwapped(coordinate, direction) ==
    CASE direction = "Down" ->
            [coordinate EXCEPT !.rowIndex = coordinate.rowIndex + 1]
      [] direction = "Left" ->
            [coordinate EXCEPT !.columnIndex = coordinate.columnIndex + 1]
      [] direction = "Right" ->
            [coordinate EXCEPT !.columnIndex = coordinate.columnIndex - 1]
      [] direction = "Up" ->
            [coordinate EXCEPT !.rowIndex = coordinate.rowIndex - 1]
      [] OTHER -> coordinate

updateCoordinateByDirection(coordinate, direction) ==
    CASE direction = "Down" ->
            [coordinate EXCEPT !.rowIndex = coordinate.rowIndex + 1]
      [] direction = "Left" ->
            [coordinate EXCEPT !.columnIndex = coordinate.columnIndex - 1]
      [] direction = "Right" ->
            [coordinate EXCEPT !.columnIndex = coordinate.columnIndex + 1]
      [] direction = "Up" ->
            [coordinate EXCEPT !.rowIndex = coordinate.rowIndex - 1]
      [] OTHER -> coordinate

\* an access order that always scans columns left to right and rows top down
getBoardGridAccessSequenceRowMajor(size, direction) ==
    [k \in 1..(size * size) |->
        [rowIndex |-> (k - 1) \div size, columnIndex |-> (k - 1) % size]]

\* #getBoardGridAccessSequence: rows bottom-up for Down, columns right to
\* left for Right, row-major otherwise
getBoardGridAccessSequence(size, direction) ==
    LET maxCoordinate == size - 1
    IN  [k \in 1..(size * size) |->
            LET rowIndex == (k - 1) \div size
                columnIndex == (k - 1) % size
            IN  [rowIndex |->
                    IF direction = "Down" THEN maxCoordinate - rowIndex ELSE rowIndex,
                 columnIndex |->
                    IF direction = "Right" THEN maxCoordinate - columnIndex
                    ELSE columnIndex]]

\* a search that asks for a merge with whatever piece it runs into
RECURSIVE keepSearchingAnyValue(_, _, _, _, _, _, _)
keepSearchingAnyValue(grid, heap, size, piece, currentCoordinate, direction, nextCoordinate) ==
    LET candidateCoordinate ==
            updateCoordinateByDirection(
                IF nextCoordinate # NoCoordinate THEN nextCoordinate
                ELSE currentCoordinate,
                direction)
    IN  IF isValidGridCoordinate(size, candidateCoordinate)
        THEN IF getGamePieceByCoordinate(grid, candidateCoordinate) = Null
             THEN keepSearchingAnyValue(grid, heap, size, piece, currentCoordinate,
                                        direction, candidateCoordinate)
             ELSE [nextCoordinate |-> candidateCoordinate, mergeRequired |-> TRUE]
        ELSE [nextCoordinate |-> nextCoordinate, mergeRequired |-> FALSE]

\* the while loop of #getUpdateInstructionForPiece, entered with the
\* nextCoordinate found so far
RECURSIVE keepSearching(_, _, _, _, _, _, _)
keepSearching(grid, heap, size, piece, currentCoordinate, direction, nextCoordinate) ==
    LET candidateCoordinate ==
            updateCoordinateByDirection(
                IF nextCoordinate # NoCoordinate THEN nextCoordinate
                ELSE currentCoordinate,
                direction)
    IN  IF isValidGridCoordinate(size, candidateCoordinate)
        THEN LET candidateCoordinatePiece ==
                     getGamePieceByCoordinate(grid, candidateCoordinate)
             IN  IF candidateCoordinatePiece = Null
                 THEN keepSearching(grid, heap, size, piece, currentCoordinate,
                                    direction, candidateCoordinate)
                 ELSE IF heap[candidateCoordinatePiece] = heap[piece]
                 THEN [nextCoordinate |-> candidateCoordinate, mergeRequired |-> TRUE]
                 ELSE [nextCoordinate |-> nextCoordinate, mergeRequired |-> FALSE]
        ELSE [nextCoordinate |-> nextCoordinate, mergeRequired |-> FALSE]

\* a search that stops at the first empty cell instead of walking on
getUpdateInstructionForPieceOneStep(grid, heap, size, piece, currentCoordinate, direction) ==
    LET candidateCoordinate == updateCoordinateByDirection(currentCoordinate, direction)
    IN  IF isValidGridCoordinate(size, candidateCoordinate)
        THEN LET candidateCoordinatePiece ==
                     getGamePieceByCoordinate(grid, candidateCoordinate)
             IN  IF candidateCoordinatePiece = Null
                 THEN [nextCoordinate |-> candidateCoordinate, mergeRequired |-> FALSE]
                 ELSE IF heap[candidateCoordinatePiece] = heap[piece]
                 THEN [nextCoordinate |-> candidateCoordinate, mergeRequired |-> TRUE]
                 ELSE [nextCoordinate |-> NoCoordinate, mergeRequired |-> FALSE]
        ELSE [nextCoordinate |-> NoCoordinate, mergeRequired |-> FALSE]

getUpdateInstructionForPiece(grid, heap, size, piece, currentCoordinate, direction) ==
    keepSearching(grid, heap, size, piece, currentCoordinate, direction, NoCoordinate)

\* the body of the for loop of shift, from the i-th coordinate of the access
\* sequence on.  st = [grid, heap, hasMoved, log]; log records, for every
\* update instruction carried out, the source cell, the destination cell,
\* whether it was a merge, and the piece that ends up in the destination.
RECURSIVE shiftLoop(_, _, _, _, _)
shiftLoop(st, size, direction, accessSequence, i) ==
    IF i > Len(accessSequence) THEN st
    ELSE
    LET coordinate == accessSequence[i]
        merged(next, target) ==
            shiftLoop([grid |-> removeGamePiece(st.grid, coordinate),
                       heap |-> IF target # Null THEN upgrade(st.heap, target)
                                ELSE st.heap,
                       hasMoved |-> TRUE,
                       log |-> Append(st.log,
                                  [from |-> coordinate, to |-> next,
                                   merge |-> TRUE, piece |-> target])],
                      size, direction, accessSequence, i + 1)
        moved(next, piece) ==
            shiftLoop([grid |-> moveGamePiece(st.grid, coordinate, next),
                       heap |-> st.heap,
                       hasMoved |-> TRUE,
                       log |-> Append(st.log,
                                  [from |-> coordinate, to |-> next,
                                   merge |-> FALSE, piece |-> piece])],
                      size, direction, accessSequence, i + 1)
        updated(piece, updateInstruction) ==
            IF updateInstruction.nextCoordinate # NoCoordinate
            THEN IF updateInstruction.mergeRequired
                 THEN merged(updateInstruction.nextCoordinate,
                             getGamePieceByCoordinate(st.grid,
                                                      updateInstruction.nextCoordinate))
                 ELSE moved(updateInstruction.nextCoordinate, piece)
            ELSE shiftLoop(st, size, direction, accessSequence, i + 1)
        visited(piece) ==
            IF piece = Null
            THEN shiftLoop(st, size, direction, accessSequence, i + 1)
            ELSE updated(piece,
                         getUpdateInstructionForPiece(st.grid, st.heap, size, piece,
                                                      coordinate, direction))
    IN  visited(getGamePieceByCoordinate(st.grid, coordinate))

\* a shift that sets hasMoved in the move branch only, not after a merge
shiftReportingMovesOnly(grid, heap, size, direction) ==
    LET r == shiftLoop([grid |-> grid, heap |-> heap, hasMoved |-> FALSE, log |-> <<>>],
                       size, direction, getBoardGridAccessSequence(size, direction), 1)
    IN  [r EXCEPT !.hasMoved = \E i \in 1..Len(r.log) : ~r.log[i].merge]

\* board.shift(direction): the new grid, the new heap, the returned hasMoved
shift(grid, heap, size, direction) ==
    shiftLoop([grid |-> grid, heap |-> heap, hasMoved |-> FALSE, log |-> <<>>],
              size, direction, getBoardGridAccessSequence(size, direction), 1)

(***************************************************************************)
(* GameBoard.clone                                                         *)
(***************************************************************************)
\* the double loop of clone, from cell k (row-major) on: every piece is
\* cloned and the clone placed at the same coordinate of clonedBoard
RECURSIVE cloneLoop(_, _, _, _, _)
cloneLoop(grid, size, clonedBoard, heap, k) ==
    IF k >= size * size THEN [grid |-> clonedBoard, heap |-> heap]
    ELSE LET coordinate == [rowIndex |-> k \div size, columnIndex |-> k % size]
             piece == getGamePieceByCoordinate(grid, coordinate)
         IN  IF piece # Null
             THEN LET heap2 == pieceClone(heap, piece)
                  IN  cloneLoop(grid, size,
                                placeGamePiece(clonedBoard, Len(heap2), coordinate),
                                heap2, k + 1)
             ELSE cloneLoop(grid, size, clonedBoard, heap, k + 1)

\* a clone that copies the grid but shares the pieces
cloneSharingPieces(grid, heap, size) == [grid |-> grid, heap |-> heap]

\* board.clone(): the grid of the cloned board and the heap with its pieces
clone(grid, heap, size) == cloneLoop(grid, size, GameBoard(size), heap, 0)

(***************************************************************************)
(* GameAgent.  The numbers of the search are exact rationals [num, den]    *)
(* where the code has doubles; -Infinity is [num |-> -1, den |-> 0].       *)
(***************************************************************************)
GCD[a \in Nat, b \in Nat] == IF b = 0 THEN a ELSE GCD[b, a % b]

Abs(x) == IF x < 0 THEN -x ELSE x

Rat(num, den) ==
    LET g == GCD[Abs(num), den]
    IN  [num |-> num \div g, den |-> den \div g]

NegInfinity == [num |-> -1, den |-> 0]

\* a < b
RatLess(a, b) == a.num * b.den < b.num * a.den

RatAdd(a, b) == Rat(a.num * b.den + b.num * a.den, a.den * b.den)

\* (p / q) * a
RatTimes(p, q, a) == Rat(p * a.num, q * a.den)

\* #log2or0: Math.log2 of a power of two, 0 for 0
RECURSIVE log2or0(_)
log2or0(value) == IF value <= 1 THEN 0 ELSE 1 + log2or0(value \div 2)

\* #evaluateBoardSmoothness
evaluateBoardSmoothness(grid, heap, size) ==
    LET cells == (0..(size - 1)) \X (0..(size - 1))
        down(rc) ==
            IF /\ grid[rc[1] + 1][rc[2] + 1] # Null
               /\ rc[1] + 1 < size
               /\ grid[rc[1] + 2][rc[2] + 1] # Null
            THEN Abs(log2or0(heap[grid[rc[1] + 1][rc[2] + 1]])
                     - log2or0(heap[grid[rc[1] + 2][rc[2] + 1]]))
            ELSE 0
        right(rc) ==
            IF /\ grid[rc[1] + 1][rc[2] + 1] # Null
               /\ rc[2] + 1 < size
               /\ grid[rc[1] + 1][rc[2] + 2] # Null
            THEN Abs(log2or0(heap[grid[rc[1] + 1][rc[2] + 1]])
                     - log2or0(heap[grid[rc[1] + 1][rc[2] + 2]]))
            ELSE 0
        Sum[S \in SUBSET cells] ==
            IF S = {} THEN 0
            ELSE LET rc == CHOOSE x \in S : TRUE
                 IN  Sum[S \ {rc}] - down(rc) - right(rc)
    IN  Sum[cells]

\* calcLineMonotonicity of a line of piece references
calcLineMonotonicity(row, heap) ==
    LET va(i) == log2or0(heap[row[i]])
        vb(i) == log2or0(heap[row[i + 1]])
        compared(i) == row[i] # Null /\ row[i + 1] # Null
        inc[i \in 0..(Len(row) - 1)] ==
            IF i = 0 THEN 0
            ELSE inc[i - 1] + (IF compared(i) /\ va(i) <= vb(i) THEN vb(i) - va(i) ELSE 0)
        dec[i \in 0..(Len(row) - 1)] ==
            IF i = 0 THEN 0
            ELSE dec[i - 1] + (IF compared(i) /\ va(i) >= vb(i) THEN va(i) - vb(i) ELSE 0)
    IN  IF inc[Len(row) - 1] >= dec[Len(row) - 1]
        THEN inc[Len(row) - 1] ELSE dec[Len(row) - 1]

\* #evaluateBoardMonotonicity: the rows, then the columns
evaluateBoardMonotonicity(grid, heap, size) ==
    LET column(c) == [r \in 1..size |-> grid[r][c]]
        rows[r \in 0..size] ==
            IF r = 0 THEN 0 ELSE rows[r - 1] + calcLineMonotonicity(grid[r], heap)
        columns[c \in 0..size] ==
            IF c = 0 THEN 0 ELSE columns[c - 1] + calcLineMonotonicity(column(c), heap)
    IN  rows[size] + columns[size]

\* an evaluation that reads the value of an empty corner as 0
evaluateBoardEmptyCornerAsZero(grid, heap, size) ==
    LET emptyCoordinatesCount == Len(getEmptyCoordinates(grid, size))
        highestValue == findMaxValue(grid, heap, size)
        value(piece) == IF piece = Null THEN 0 ELSE heap[piece]
        cornerBonus ==
            IF \/ value(grid[1][1]) = highestValue
               \/ value(grid[1][size]) = highestValue
               \/ value(grid[size][1]) = highestValue
               \/ value(grid[size][size]) = highestValue
            THEN 1 ELSE 0
    IN  350 * emptyCoordinatesCount
        + 3 * evaluateBoardSmoothness(grid, heap, size)
        + 10 * evaluateBoardMonotonicity(grid, heap, size)
        + 300 * cornerBonus
        + 1 * highestValue

\* #evaluateBoard
evaluateBoard(grid, heap, size) ==
    LET emptyCoordinatesCount == Len(getEmptyCoordinates(grid, size))
        highestValue == findMaxValue(grid, heap, size)
        \* piece?.value, undefined (-1) for null
        value(piece) == IF piece = Null THEN -1 ELSE heap[piece]
        cornerBonus ==
            IF \/ value(grid[1][1]) = highestValue
               \/ value(grid[1][size]) = highestValue
               \/ value(grid[size][1]) = highestValue
               \/ value(grid[size][size]) = highestValue
            THEN 1 ELSE 0
    IN  350 * emptyCoordinatesCount
        + 3 * evaluateBoardSmoothness(grid, heap, size)
        + 10 * evaluateBoardMonotonicity(grid, heap, size)
        + 300 * cornerBonus
        + 1 * highestValue

\* first; rest : the statement first is carried out (its result computed)
\* before the statements after it
Then(first, rest) == IF first = first THEN rest ELSE rest

\* #expectimaxNode returns [value, heap]: the node's value and the heap the
\* search leaves.  maxNodeLoop is the for loop of a max node from the i-th
\* direction on, chanceNodeLoop the for loop of a chance node from the i-th
\* empty coordinate on.
RECURSIVE expectimaxNode(_, _, _, _, _)
RECURSIVE maxNodeLoop(_, _, _, _, _, _)
RECURSIVE chanceNodeLoop(_, _, _, _, _, _, _)

\* const clone = board.clone(); clone.shift(direction): the result of the
\* shift of a fresh clone
shiftClone(grid, heap, size, direction) ==
    LET shiftOf(boardClone) == shift(boardClone.grid, boardClone.heap, size, direction)
    IN  shiftOf(clone(grid, heap, size))

\* a child whose piece is made by createPiece() without a value: the value
\* comes from the random source, whose draw follows the objects allocated
\* so far and not the value the chance node names
chanceChildDrawingValue(grid, heap, size, depth, coordinate, value) ==
    LET placedOn(boardClone) ==
            LET withPiece(heap2) ==
                    expectimaxNode(placeGamePiece(boardClone.grid, Len(heap2), coordinate),
                                   heap2, size, depth - 1, TRUE)
            IN  withPiece(GamePiece(boardClone.heap,
                                    IF Len(boardClone.heap) % 2 = 0 THEN 2 ELSE 4))
    IN  placedOn(clone(grid, heap, size))

\* the child of a chance node: a fresh clone with a new piece of the given
\* value placed at the coordinate, searched as a player's turn
chanceChild(grid, heap, size, depth, coordinate, value) ==
    LET placedOn(boardClone) ==
            LET withPiece(heap2) ==
                    expectimaxNode(placeGamePiece(boardClone.grid, Len(heap2), coordinate),
                                   heap2, size, depth - 1, TRUE)
            IN  withPiece(GamePiece(boardClone.heap, value))
    IN  placedOn(clone(grid, heap, size))

\* one pass of the for loop of a max node, for one direction: the best
\* value and the heap after it
maxNodeStep(grid, heap, size, depth, direction, best) ==
    LET afterChild(child) ==
            [best |-> IF RatLess(best, child.value) THEN child.value ELSE best,
             heap |-> child.heap]
        afterShift(shifted) ==
            IF ~shifted.hasMoved THEN [best |-> best, heap |-> shifted.heap]
            ELSE afterChild(expectimaxNode(shifted.grid, shifted.heap, size,
                                           depth - 1, FALSE))
    IN  afterShift(shiftClone(grid, heap, size, direction))

\* the passes after the i-th, which left step
maxNodeNext(grid, size, depth, i, step) ==
    Then(step, maxNodeLoop(grid, step.heap, size, depth, i + 1, step.best))

\* a max node without the fallback to the static evaluation
maxNodeLoopWithoutFallback(grid, heap, size, depth, i, best) ==
    IF i > Len(ShiftDirection) THEN [value |-> best, heap |-> heap]
    ELSE maxNodeNext(grid, size, depth, i,
                     maxNodeStep(grid, heap, size, depth, ShiftDirection[i], best))

maxNodeLoop(grid, heap, size, depth, i, best) ==
    IF i > Len(ShiftDirection)
    THEN [value |-> IF best = NegInfinity
                    THEN Rat(evaluateBoard(grid, heap, size), 1) ELSE best,
          heap |-> heap]
    ELSE maxNodeNext(grid, size, depth, i,
                     maxNodeStep(grid, heap, size, depth, ShiftDirection[i], best))

\* one pass of the for loop of a chance node, for one empty coordinate:
\* expected after the two additions, and the heap after it
\* a pass that gives both pieces the same weight
chanceNodeStepEvenWeights(grid, heap, size, depth, coordinate, count, expected) ==
    LET after4(child2, child4) ==
            [expected |-> RatAdd(RatAdd(expected, RatTimes(1, 2 * count, child2.value)),
                                 RatTimes(1, 2 * count, child4.value)),
             heap |-> child4.heap]
        after2(child2) ==
            after4(child2, chanceChild(grid, child2.heap, size, depth, coordinate, 4))
    IN  after2(chanceChild(grid, heap, size, depth, coordinate, 2))

chanceNodeStep(grid, heap, size, depth, coordinate, count, expected) ==
    LET after4(child2, child4) ==
            [expected |-> RatAdd(RatAdd(expected, RatTimes(9, 10 * count, child2.value)),
                                 RatTimes(1, 10 * count, child4.value)),
             heap |-> child4.heap]
        after2(child2) ==
            after4(child2, chanceChild(grid, child2.heap, size, depth, coordinate, 4))
    IN  after2(chanceChild(grid, heap, size, depth, coordinate, 2))

\* the passes after the i-th, which left step
chanceNodeNext(grid, size, depth, emptyCoordinates, i, step) ==
    Then(step, chanceNodeLoop(grid, step.heap, size, depth, emptyCoordinates, i + 1,
                              step.expected))

chanceNodeLoop(grid, heap, size, depth, emptyCoordinates, i, expected) ==
    IF i > Len(emptyCoordinates) THEN [value |-> expected, heap |-> heap]
    ELSE chanceNodeNext(grid, size, depth, emptyCoordinates, i,
                        chanceNodeStep(grid, heap, size, depth, emptyCoordinates[i],
                                       Len(emptyCoordinates), expected))

\* a node that does not test the piece of greatest value against the
\* target value
expectimaxNodeIgnoringTarget(grid, heap, size, depth, isPlayerTurn) ==
    IF \/ depth = 0
       \/ ~hasValidMoves(grid, heap, size)
    THEN [value |-> Rat(evaluateBoard(grid, heap, size), 1), heap |-> heap]
    ELSE IF isPlayerTurn
    THEN maxNodeLoop(grid, heap, size, depth, 1, NegInfinity)
    ELSE LET chance(emptyCoordinates) ==
                 IF Len(emptyCoordinates) = 0
                 THEN [value |-> Rat(evaluateBoard(grid, heap, size), 1), heap |-> heap]
                 ELSE chanceNodeLoop(grid, heap, size, depth, emptyCoordinates, 1,
                                     Rat(0, 1))
         IN  chance(getEmptyCoordinates(grid, size))

expectimaxNode(grid, heap, size, depth, isPlayerTurn) ==
    IF \/ depth = 0
       \/ ~hasValidMoves(grid, heap, size)
       \/ (\E co \in Coordinates(size) : getGamePieceByCoordinate(grid, co) # Null)
            /\ findMaxValue(grid, heap, size) = gameWinValue
    THEN [value |-> Rat(evaluateBoard(grid, heap, size), 1), heap |-> heap]
    ELSE IF isPlayerTurn
    THEN maxNodeLoop(grid, heap, size, depth, 1, NegInfinity)
    ELSE LET chance(emptyCoordinates) ==
                 IF Len(emptyCoordinates) = 0
                 THEN [value |-> Rat(evaluateBoard(grid, heap, size), 1), heap |-> heap]
                 ELSE chanceNodeLoop(grid, heap, size, depth, emptyCoordinates, 1,
                                     Rat(0, 1))
         IN  chance(getEmptyCoordinates(grid, size))

\* a loop body that evaluates a direction whether or not its shift moved
recommendStepNotSkipping(grid, size, direction, acc) ==
    LET afterNode(node) ==
            IF RatLess(acc.bestValue, node.value)
            THEN [recommendedMove |-> direction, bestValue |-> node.value,
                  heap |-> node.heap]
            ELSE [acc EXCEPT !.heap = node.heap]
        afterShift(shifted) ==
            afterNode(expectimaxNode(shifted.grid, shifted.heap, size,
                                     SearchDepth, FALSE))
    IN  afterShift(shiftClone(grid, acc.heap, size, direction))

\* a loop body that takes a direction whose value is not less than the best
recommendStepTakingTies(grid, size, direction, acc) ==
    LET afterNode(node) ==
            IF ~RatLess(node.value, acc.bestValue)
            THEN [recommendedMove |-> direction, bestValue |-> node.value,
                  heap |-> node.heap]
            ELSE [acc EXCEPT !.heap = node.heap]
        afterShift(shifted) ==
            IF ~shifted.hasMoved THEN [acc EXCEPT !.heap = shifted.heap]
            ELSE afterNode(expectimaxNode(shifted.grid, shifted.heap, size,
                                          SearchDepth, FALSE))
    IN  afterShift(shiftClone(grid, acc.heap, size, direction))

\* the body of the for loop of recommendNextMove for one direction;
\* acc = [recommendedMove, bestValue, heap]
recommendStep(grid, size, direction, acc) ==
    LET afterNode(node) ==
            IF RatLess(acc.bestValue, node.value)
            THEN [recommendedMove |-> direction, bestValue |-> node.value,
                  heap |-> node.heap]
            ELSE [acc EXCEPT !.heap = node.heap]
        afterShift(shifted) ==
            IF ~shifted.hasMoved THEN [acc EXCEPT !.heap = shifted.heap]
            ELSE afterNode(expectimaxNode(shifted.grid, shifted.heap, size,
                                          SearchDepth, FALSE))
    IN  afterShift(shiftClone(grid, acc.heap, size, direction))

RECURSIVE recommendLoop(_, _, _, _)
recommendLoop(grid, size, i, acc) ==
    IF i > Len(ShiftDirection) THEN acc
    ELSE LET continue(next) == Then(next, recommendLoop(grid, size, i + 1, next))
         IN  continue(recommendStep(grid, size, ShiftDirection[i], acc))

\* agent.recommendNextMove(board): the recommended direction ("null" for
\* null), the best value, and the heap the search leaves
recommendNextMove(grid, heap, size) ==
    recommendLoop(grid, size, 1,
                  [recommendedMove |-> "null", bestValue |-> NegInfinity, heap |-> heap])

(***************************************************************************)
(* The tree the search walks.  A node is a call of #expectimaxNode: its    *)
(* level is the number of node transitions from the root, the call of     *)
(* recommendNextMove, down to it.  Every branch works on its own clone, so *)
(* the children of a node are taken from the heap the node was given.      *)
(***************************************************************************)
\* the test that ends the recursion at a node
isTerminalNode(grid, heap, size, depth) ==
    \/ depth = 0
    \/ ~hasValidMoves(grid, heap, size)
    \/ (\E co \in Coordinates(size) : getGamePieceByCoordinate(grid, co) # Null)
         /\ findMaxValue(grid, heap, size) = gameWinValue

\* the clones a max node recurses on: those whose shift returned true
movedClones(grid, heap, size) ==
    {shifted \in {shiftClone(grid, heap, size, direction) : direction \in DirectionSet} :
        shifted.hasMoved}

\* board2 and board4 of a chance node for one empty coordinate
placedClone(grid, heap, size, coordinate, value) ==
    LET placedOn(boardClone) ==
            LET withPiece(heap2) ==
                    [grid |-> placeGamePiece(boardClone.grid, Len(heap2), coordinate),
                     heap |-> heap2]
            IN  withPiece(GamePiece(boardClone.heap, value))
    IN  placedOn(clone(grid, heap, size))

placedClones(grid, heap, size) ==
    LET placedAt(emptyCoordinates) ==
            {placedClone(grid, heap, size, emptyCoordinates[i], value) :
                i \in 1..Len(emptyCoordinates), value \in {2, 4}}
    IN  placedAt(getEmptyCoordinates(grid, size))

\* what is recorded of a call of #expectimaxNode
searchNode(grid, heap, size, depth, isPlayerTurn, level) ==
    [level |-> level, depth |-> depth, isPlayerTurn |-> isPlayerTurn,
     terminal |-> isTerminalNode(grid, heap, size, depth),
     hasValidMoves |-> hasValidMoves(grid, heap, size),
     canMove |-> movedClones(grid, heap, size) # {}]

\* the calls of #expectimaxNode made by a call of it, itself included
RECURSIVE searchNodes(_, _, _, _, _, _)
searchNodes(grid, heap, size, depth, isPlayerTurn, level) ==
    {searchNode(grid, heap, size, depth, isPlayerTurn, level)} \cup
    (IF isTerminalNode(grid, heap, size, depth) THEN {}
     ELSE IF isPlayerTurn
     THEN UNION {searchNodes(child.grid, child.heap, size, depth - 1, FALSE, level + 1) :
                    child \in movedClones(grid, heap, size)}
     ELSE UNION {searchNodes(child.grid, child.heap, size, depth - 1, TRUE, level + 1) :
                    child \in placedClones(grid, heap, size)})

\* the calls of #expectimaxNode made by recommendNextMove(board)
recommendNodes(grid, heap, size) ==
    UNION {searchNodes(child.grid, child.heap, size, SearchDepth, FALSE, 1) :
              child \in movedClones(grid, heap, size)}

(***************************************************************************)
(* GameController.  Random draws are nondeterministic choices: an          *)
(* operation with random draws yields the set of its possible outcomes.    *)
(***************************************************************************)
\* cryptoRandomInt(min, max): the values it can return
cryptoRandomInt(min, max) == min..max

Min(a, b) == IF a <= b THEN a ELSE b

\* coordinates.splice(index, 1)
splice(coordinates, index) ==
    [k \in 1..(Len(coordinates) - 1) |->
        IF k <= index THEN coordinates[k] ELSE coordinates[k + 1]]

\* the while loop of getRandomEmptyCoordinates: the sequences it can return
RECURSIVE drawCoordinates(_, _, _)
drawCoordinates(coordinates, randomCoordinates, count) ==
    IF Len(randomCoordinates) < Min(count, Len(coordinates))
    THEN UNION {drawCoordinates(splice(coordinates, index),
                                Append(randomCoordinates, coordinates[index + 1]),
                                count) :
                    index \in cryptoRandomInt(0, Len(coordinates) - 1)}
    ELSE {randomCoordinates}

getRandomEmptyCoordinates(grid, size, count) ==
    drawCoordinates(getEmptyCoordinates(grid, size), <<>>, count)

\* the for loop of #placeNewPieces from the i-th coordinate on: the boards
\* it can produce, a piece of random value placed at every coordinate
RECURSIVE placeAt(_, _, _, _)
placeAt(grid, heap, coordinates, i) ==
    IF i > Len(coordinates) THEN {[grid |-> grid, heap |-> heap]}
    ELSE UNION {LET h == GamePiece(heap, value)
                IN  placeAt(placeGamePiece(grid, Len(h), coordinates[i]), h,
                            coordinates, i + 1) :
                    value \in GamePieceRandomValues}

\* a #placeNewPieces that asks for one coordinate more than count
placeNewPiecesOneMore(grid, heap, size, count) ==
    UNION {placeAt(grid, heap, coordinates, 1) :
               coordinates \in getRandomEmptyCoordinates(grid, size, count + 1)}

\* #placeNewPieces(count): the boards it can produce
placeNewPieces(grid, heap, size, count) ==
    UNION {placeAt(grid, heap, coordinates, 1) :
               coordinates \in getRandomEmptyCoordinates(grid, size, count)}


(***************************************************************************)
(* State.                                                                  *)
(***************************************************************************)
VARIABLES
    size,       \* GameBoard.#size of the live board
    grid,       \* GameBoard.#grid of the live board
    heap,       \* the value fields of the GamePiece objects allocated so far
    cloned,     \* the #grid of a board obtained by clone(), <<>> before
    status,     \* GameController.#status
    listening,  \* whether the controller's input handlers are attached
    messages,   \* the number of renderer.renderMessage calls so far
    last        \* the last operation carried out, its inputs and its result

vars == <<size, grid, heap, cloned, status, listening, messages, last>>

\* the record of an operation: target is the board it was called on ("board":
\* the live board, "clone": the cloned one), n counts the operations carried out so far,
\* beforeGrid / beforeHeap / beforeCloned are the state the operation found,
\* prev* describe the operation before it
NoOperation ==
    [op |-> "none", target |-> "none", direction |-> "none", hasMoved |-> FALSE,
     log |-> <<>>, beforeGrid |-> <<>>, beforeHeap |-> <<>>, beforeCloned |-> <<>>, n |-> 0,
     prevOp |-> "none", prevDirection |-> "none", prevHasMoved |-> FALSE,
     prevMerged |-> FALSE]

Operation(op, target, direction, hasMoved, log) ==
    [op |-> op, target |-> target, direction |-> direction, hasMoved |-> hasMoved,
     log |-> log, beforeGrid |-> grid, beforeHeap |-> heap, beforeCloned |-> cloned,
     n |-> last.n + 1,
     prevOp |-> last.op, prevDirection |-> last.direction,
     prevHasMoved |-> last.hasMoved,
     prevMerged |-> \E i \in 1..Len(last.log) : last.log[i].merge]

(***************************************************************************)
(* Boards drawn as inputs: a board of the given size is built by           *)
(* new GameBoard(size) and placeGamePiece(new GamePiece(v), coordinate)    *)
(* for the cells of a grid of values, in row-major order.                  *)
(***************************************************************************)
ValueGrids(n, values) == [1..n -> [1..n -> values \cup {0}]]

RECURSIVE placeValuesFrom(_, _, _, _, _)
placeValuesFrom(valueGrid, n, g, h, k) ==
    IF k >= n * n THEN [grid |-> g, heap |-> h]
    ELSE LET coordinate == [rowIndex |-> k \div n, columnIndex |-> k % n]
             v == valueGrid[coordinate.rowIndex + 1][coordinate.columnIndex + 1]
         IN  IF v = 0 THEN placeValuesFrom(valueGrid, n, g, h, k + 1)
             ELSE LET h2 == GamePiece(h, v)
                  IN  placeValuesFrom(valueGrid, n,
                                      placeGamePiece(g, Len(h2), coordinate), h2, k + 1)

BoardOfValues(valueGrid, n) == placeValuesFrom(valueGrid, n, GameBoard(n), <<>>, 0)

InitDrawn(maxSize) ==
    /\ size \in 1..maxSize
    /\ \E valueGrid \in ValueGrids(size, DrawnValues) :
          LET b == BoardOfValues(valueGrid, size)
          IN  grid = b.grid /\ heap = b.heap
    /\ cloned = <<>>
    /\ status = "null"
    /\ listening = FALSE
    /\ messages = 0
    /\ last = NoOperation

(***************************************************************************)
(* The shift engine on drawn boards: up to MaxOps calls of shift.          *)
(***************************************************************************)
BoardShift(direction) ==
    /\ last.n < MaxOps
    /\ LET r == shift(grid, heap, size, direction)
       IN  /\ grid' = r.grid
           /\ heap' = r.heap
           /\ last' = Operation("shift", "board", direction, r.hasMoved, r.log)
    /\ UNCHANGED <<size, cloned, status, listening, messages>>

InitShift == InitDrawn(MaxSize)

NextShift == \E direction \in DirectionSet : BoardShift(direction)

SpecShift == InitShift /\ [][NextShift]_vars

(***************************************************************************)
(* Properties of the shift engine (checked under SpecShift).               *)
(***************************************************************************)
\* the p-th cell, counted from the edge the pieces move toward, of the
\* line-th line along the axis of motion
LineCell(direction, n, line, p) ==
    CASE direction = "Left"  -> [rowIndex |-> line, columnIndex |-> p]
      [] direction = "Right" -> [rowIndex |-> line, columnIndex |-> n - 1 - p]
      [] direction = "Up"    -> [rowIndex |-> p, columnIndex |-> line]
      [] direction = "Down"  -> [rowIndex |-> n - 1 - p, columnIndex |-> line]

Indices == 0..(size - 1)

ShiftDone == last.op = "shift"

ValuesBefore == Values(last.beforeGrid, last.beforeHeap)

ValuesAfter == Values(grid, heap)

MergeCount == Cardinality({i \in 1..Len(last.log) : last.log[i].merge})

\* C1: within one shift call no piece is the destination of more than one
\* merge (a piece doubled by a merge is not merged into again in that call).
C1_AtMostOneMergePerPiece ==
    ShiftDone =>
        \A i, j \in 1..Len(last.log) :
            (i # j /\ last.log[i].merge /\ last.log[j].merge)
                => last.log[i].piece # last.log[j].piece

\* the shift just carried out was the second of two calls with the same
\* direction in immediate succession
ShiftedTwice ==
    /\ ShiftDone
    /\ last.prevOp = "shift"
    /\ last.prevDirection = last.direction

\* no two pieces adjacent along the axis of the direction have equal values
NoEqualNeighboursAlong(g, h, n, direction) ==
    \A line \in 0..(n - 1), p \in 0..(n - 2) :
        LET a == ValueAt(g, h, LineCell(direction, n, line, p))
            b == ValueAt(g, h, LineCell(direction, n, line, p + 1))
        IN  a = 0 \/ a # b

\* C2 (as stated): the second of two shift(d) calls in immediate succession
\* returns false and leaves the board unchanged.
C2_SecondShiftIsNoOp ==
    ShiftedTwice => (~last.hasMoved /\ ValuesAfter = ValuesBefore)

\* C2 (amended): when the first call leaves no two equal pieces adjacent
\* along the axis of d, the second shift(d) call returns false and leaves
\* the board unchanged.
C2_SecondShiftIsNoOpUnlessEqualNeighbours ==
    (ShiftedTwice /\ NoEqualNeighboursAlong(last.beforeGrid, last.beforeHeap,
                                            size, last.direction))
        => (~last.hasMoved /\ grid = last.beforeGrid /\ heap = last.beforeHeap)

\* C2 witness: a second shift(d) right after a first shift(d) that moved
\* pieces and left no equal neighbours along the axis
C2_Witness ==
    /\ ShiftedTwice
    /\ last.prevHasMoved
    /\ NoEqualNeighboursAlong(last.beforeGrid, last.beforeHeap, size, last.direction)
    /\ ~last.hasMoved

Adjacent(c1, c2) ==
    \/ /\ c1.rowIndex = c2.rowIndex
       /\ (c1.columnIndex - c2.columnIndex) \in {-1, 1}
    \/ /\ c1.columnIndex = c2.columnIndex
       /\ (c1.rowIndex - c2.rowIndex) \in {-1, 1}

BoardFull == \A co \in Coordinates(size) : ValueAt(grid, heap, co) # 0

NoEqualAdjacentValues ==
    \A c1, c2 \in Coordinates(size) :
        Adjacent(c1, c2) => ValueAt(grid, heap, c1) # ValueAt(grid, heap, c2)

\* C5: hasValidMoves() is false iff every cell is occupied and no two
\* horizontally or vertically adjacent cells hold pieces of equal value.
C5_HasValidMovesCorrect ==
    (~hasValidMoves(grid, heap, size)) <=> (BoardFull /\ NoEqualAdjacentValues)

\* C5 witness: a full board of more than one cell on which two adjacent
\* cells hold distinct pieces of equal value, so that a move is left
C5_Witness ==
    /\ size >= 2
    /\ BoardFull
    /\ ~NoEqualAdjacentValues
    /\ hasValidMoves(grid, heap, size)

\* the values of a line before the shift, read from the target edge
LineBefore(line) ==
    [p \in 1..size |->
        ValueAt(last.beforeGrid, last.beforeHeap,
                LineCell(last.direction, size, line, p - 1))]

LineAfter(line) ==
    [p \in 1..size |-> ValueAt(grid, heap, LineCell(last.direction, size, line, p - 1))]

\* the line holds exactly three pieces, all of the same value
ThreeEqualPieces(lineValues) ==
    /\ Cardinality({p \in 1..Len(lineValues) : lineValues[p] # 0}) = 3
    /\ \A p, q \in 1..Len(lineValues) :
          (lineValues[p] # 0 /\ lineValues[q] # 0) => lineValues[p] = lineValues[q]

\* C8: a line whose only pieces are three pieces of value v is left by a
\* shift along it with 2v in the edge cell, v next to it, the rest empty.
C8_ChainPrevention ==
    ShiftDone =>
        \A line \in Indices :
            ThreeEqualPieces(LineBefore(line)) =>
                LET v == CHOOSE w \in {LineBefore(line)[p] : p \in 1..size} : w # 0
                IN  /\ LineAfter(line)[1] = 2 * v
                    /\ LineAfter(line)[2] = v
                    /\ \A p \in 3..size : LineAfter(line)[p] = 0

\* C8 witness: a shift toward the right or lower edge found a line of three
\* equal pieces
C8_Witness ==
    /\ ShiftDone
    /\ last.direction \in {"Right", "Down"}
    /\ \E line \in Indices : ThreeEqualPieces(LineBefore(line))

\* the position, counted from the target edge, a piece has on a line of a
\* grid; -1 when the piece is not on the line
PositionOnLine(g, piece, line) ==
    IF \E p \in Indices : getGamePieceByCoordinate(g, LineCell(last.direction, size, line, p)) = piece
    THEN CHOOSE p \in Indices :
            getGamePieceByCoordinate(g, LineCell(last.direction, size, line, p)) = piece
    ELSE -1

\* the pieces of the board before the shift that did not take part in a merge
Unmerged ==
    {piece \in 1..Len(last.beforeHeap) :
        /\ \E co \in Coordinates(size) : getGamePieceByCoordinate(grid, co) = piece
        /\ heap[piece] = last.beforeHeap[piece]}

\* C9: after shift(d) the occupied cells of every line along the axis of
\* motion form a block touching the edge in direction d, and the pieces
\* that did not merge keep their relative order along the line.
C9_MaximalSlide ==
    ShiftDone =>
        \A line \in Indices :
            /\ \A p \in 2..size : LineAfter(line)[p] # 0 => LineAfter(line)[p - 1] # 0
            /\ \A a, b \in Unmerged :
                  (/\ PositionOnLine(last.beforeGrid, a, line) >= 0
                   /\ PositionOnLine(last.beforeGrid, b, line) >= 0
                   /\ PositionOnLine(last.beforeGrid, a, line)
                        < PositionOnLine(last.beforeGrid, b, line))
                  => (/\ PositionOnLine(grid, a, line) >= 0
                      /\ PositionOnLine(grid, a, line) < PositionOnLine(grid, b, line))

\* C9 witness: a shift slid two unmerged pieces of one line over empty cells
C9_Witness ==
    /\ ShiftDone
    /\ \E line \in Indices : \E a, b \in Unmerged :
          /\ PositionOnLine(last.beforeGrid, a, line) >= 1
          /\ PositionOnLine(last.beforeGrid, a, line)
                < PositionOnLine(last.beforeGrid, b, line)
          /\ PositionOnLine(grid, a, line) = 0
          /\ PositionOnLine(grid, b, line) = 1

\* C10: shift(d) returns true iff the grid of piece values after the call
\* differs from the grid before it; when it returns false no cell changed.
C10_ReturnsTrueIffChanged ==
    ShiftDone =>
        /\ last.hasMoved <=> (ValuesAfter # ValuesBefore)
        /\ ~last.hasMoved => (grid = last.beforeGrid /\ heap = last.beforeHeap)

\* C10 witness: a shift of a board with pieces that returned false, and
\* (the state before it) one that returned true by a merge alone
C10_Witness ==
    /\ ShiftDone
    /\ ~last.hasMoved
    /\ last.prevOp = "shift"
    /\ last.prevHasMoved
    /\ last.prevMerged
    /\ \E co \in Coordinates(size) : ValueAt(grid, heap, co) # 0

\* the sum of the piece values of the first k cells (row-major) of a grid
RECURSIVE SumOfValues(_, _, _, _)
SumOfValues(g, h, n, k) ==
    IF k = 0 THEN 0
    ELSE SumOfValues(g, h, n, k - 1)
         + ValueAt(g, h, [rowIndex |-> (k - 1) \div n, columnIndex |-> (k - 1) % n])

PieceCount(g, n) ==
    Cardinality({co \in Coordinates(n) : getGamePieceByCoordinate(g, co) # Null})

\* C11: every shift preserves the sum of the piece values of the board and
\* reduces the number of pieces by exactly the number of merges performed;
\* every merge clears its source cell and leaves a piece in its destination.
C11_MergePreservesSum ==
    ShiftDone =>
        /\ SumOfValues(grid, heap, size, size * size)
              = SumOfValues(last.beforeGrid, last.beforeHeap, size, size * size)
        /\ PieceCount(grid, size) = PieceCount(last.beforeGrid, size) - MergeCount
        /\ MergeCount > 0 => last.hasMoved

\* C11 witness: a shift that merged two pieces of a line into one of twice
\* the value at the edge and left the rest of the line empty
C11_Witness ==
    /\ ShiftDone
    /\ last.hasMoved
    /\ MergeCount = 1
    /\ size = 3
    /\ \E line \in Indices, v \in DrawnValues :
          /\ LineBefore(line) = <<v, v, 0>>
          /\ LineAfter(line) = <<2 * v, 0, 0>>

\* the place of a cell in the access order of the last shift
AccessPosition(coordinate) ==
    CHOOSE k \in 1..(size * size) :
        getBoardGridAccessSequence(size, last.direction)[k] = coordinate

\* the cell a piece was at before the last shift
CellBefore(piece) ==
    CHOOSE coordinate \in Coordinates(size) :
        getGamePieceByCoordinate(last.beforeGrid, coordinate) = piece

\* the piece the i-th move or merge of the last shift took from its source
Mover(i) == getGamePieceByCoordinate(last.beforeGrid, last.log[i].from)

\* C24: in a shift the destination of every move and merge is visited
\* before its source; the sources are visited one after the other, each
\* still holding the piece it held before the shift, so a piece that was
\* moved, or merged into, is not a mover afterwards; and a piece that is
\* upgraded was visited before.
C24_MoverAtMostOnce ==
    ShiftDone =>
        \A i \in 1..Len(last.log) :
            /\ AccessPosition(last.log[i].to) < AccessPosition(last.log[i].from)
            /\ Mover(i) # Null
            /\ ~last.log[i].merge => last.log[i].piece = Mover(i)
            /\ last.log[i].merge =>
                  AccessPosition(CellBefore(last.log[i].piece))
                      < AccessPosition(last.log[i].from)
            /\ \A j \in (i + 1)..Len(last.log) :
                  /\ AccessPosition(last.log[i].from) < AccessPosition(last.log[j].from)
                  /\ Mover(j) # last.log[i].piece
                  /\ Mover(j) # Mover(i)

\* a piece was moved and then merged into, in a shift to the right or down
C24_Witness ==
    /\ ShiftDone
    /\ last.direction \in {"Right", "Down"}
    /\ \E i, j \in 1..Len(last.log) :
          /\ i < j
          /\ ~last.log[i].merge
          /\ last.log[j].merge
          /\ last.log[j].piece = last.log[i].piece

\* the directions whose shift changes the board as it is
DirectionsThatMove ==
    {direction \in DirectionSet : shift(grid, heap, size, direction).hasMoved}

\* C28: on a board that holds a piece, hasValidMoves() is true exactly when
\* the shift of some direction returns true.
C28_ValidMovesIffSomeShiftMoves ==
    PieceCount(grid, size) > 0 =>
        (hasValidMoves(grid, heap, size) <=> DirectionsThatMove # {})

\* a full board that a shift left as it was and that another direction
\* changes
C28_Witness ==
    /\ ShiftDone
    /\ ~last.hasMoved
    /\ BoardFull
    /\ hasValidMoves(grid, heap, size)
    /\ DirectionsThatMove # {}
    /\ last.direction \notin DirectionsThatMove

MaxBefore == findMaxValue(last.beforeGrid, last.beforeHeap, size)

MaxAfter == findMaxValue(grid, heap, size)

\* the target values 8, 16 and 32
TargetValues == {2 ^ e : e \in WinExp..(WinExp + 2)}

\* C30: a shift leaves the greatest value of the board as it was or doubles
\* it, so a board whose values are below a target value that is a power of
\* two has no value above the target after a shift: the greatest value
\* cannot pass the target without being equal to it.
C30_MaxValueCannotSkipTarget ==
    ShiftDone =>
        /\ MaxAfter \in {MaxBefore, 2 * MaxBefore}
        /\ \A target \in TargetValues : MaxBefore < target => MaxAfter <= target

\* a shift merged the pieces of a line 2, 2, 4 into one piece: the
\* greatest value went from under the target to the target
C30_Witness ==
    /\ ShiftDone
    /\ MergeCount = 2
    /\ MaxBefore = gameWinValue \div 2
    /\ MaxAfter = gameWinValue
    /\ \E line \in Indices : LineBefore(line) = <<2, 2, 4>> /\ LineAfter(line) = <<8, 0, 0>>

(***************************************************************************)
(* Clones: a drawn board is cloned, then up to MaxOps operations are       *)
(* applied, each to the original or to the clone.                          *)
(***************************************************************************)
Targets == {"board", "clone"}

GridOf(target) == IF target = "board" THEN grid ELSE cloned

\* assign the grid an operation on the target board produced
SetGridOf(target, g) ==
    IF target = "board" THEN grid' = g /\ cloned' = cloned
    ELSE cloned' = g /\ grid' = grid

CanOperate == cloned # <<>> /\ last.n < MaxOps + 1

BoardClone ==
    /\ cloned = <<>>
    /\ LET r == clone(grid, heap, size)
       IN  /\ cloned' = r.grid
           /\ heap' = r.heap
    /\ last' = Operation("clone", "board", "none", FALSE, <<>>)
    /\ UNCHANGED <<size, grid, status, listening, messages>>

PlaceOn(target, value, coordinate) ==
    /\ CanOperate
    /\ LET h == GamePiece(heap, value)
       IN  /\ heap' = h
           /\ SetGridOf(target, placeGamePiece(GridOf(target), Len(h), coordinate))
    /\ last' = Operation("place", target, "none", FALSE, <<>>)
    /\ UNCHANGED <<size, status, listening, messages>>

RemoveOn(target, coordinate) ==
    /\ CanOperate
    /\ SetGridOf(target, removeGamePiece(GridOf(target), coordinate))
    /\ last' = Operation("remove", target, "none", FALSE, <<>>)
    /\ UNCHANGED <<size, heap, status, listening, messages>>

MoveOn(target, fromCoordinate, toCoordinate) ==
    /\ CanOperate
    /\ SetGridOf(target, moveGamePiece(GridOf(target), fromCoordinate, toCoordinate))
    /\ last' = Operation("move", target, "none", FALSE,
                         <<[from |-> fromCoordinate, to |-> toCoordinate,
                            merge |-> FALSE]>>)
    /\ UNCHANGED <<size, heap, status, listening, messages>>

ShiftOn(target, direction) ==
    /\ CanOperate
    /\ LET r == shift(GridOf(target), heap, size, direction)
       IN  /\ SetGridOf(target, r.grid)
           /\ heap' = r.heap
           /\ last' = Operation("shift", target, direction, r.hasMoved, r.log)
    /\ UNCHANGED <<size, status, listening, messages>>

InitClone == InitDrawn(SmallSize)

NextClone ==
    \/ BoardClone
    \/ \E target \in Targets, value \in DrawnValues, coordinate \in Coordinates(size) :
          PlaceOn(target, value, coordinate)
    \/ \E target \in Targets, coordinate \in Coordinates(size) :
          RemoveOn(target, coordinate)
    \/ \E target \in Targets, fromCoordinate, toCoordinate \in Coordinates(size) :
          MoveOn(target, fromCoordinate, toCoordinate)
    \/ \E target \in Targets, direction \in DirectionSet : ShiftOn(target, direction)

SpecClone == InitClone /\ [][NextClone]_vars

\* the pieces a grid refers to
PiecesOf(g) == {g[r][c] : r \in 1..Len(g), c \in 1..Len(g)} \ {Null}

\* C4: once a board is cloned, placeGamePiece, removeGamePiece, moveGamePiece
\* and shift applied to the clone leave every cell and every piece value of
\* the original unchanged, and applied to the original leave the clone
\* unchanged.
C4_CloneIndependence ==
    /\ (last.op # "clone" /\ last.target = "clone") =>
          /\ grid = last.beforeGrid
          /\ \A piece \in PiecesOf(grid) : heap[piece] = last.beforeHeap[piece]
    /\ (last.op # "clone" /\ last.target = "board") =>
          /\ cloned = last.beforeCloned
          /\ \A piece \in PiecesOf(cloned) : heap[piece] = last.beforeHeap[piece]
    /\ last.op = "clone" =>
          /\ grid = last.beforeGrid
          /\ Values(cloned, heap) = Values(grid, heap)
          /\ \A piece \in PiecesOf(grid) : heap[piece] = last.beforeHeap[piece]

\* C4 witness: a shift of the clone upgraded a piece by a merge while the
\* original holds pieces
C4_Witness ==
    /\ last.op = "shift"
    /\ last.target = "clone"
    /\ \E i \in 1..Len(last.log) : last.log[i].merge
    /\ PiecesOf(grid) # {}

\* the grid of the target of the last operation, before it and after it
GridBefore == IF last.target = "board" THEN last.beforeGrid ELSE last.beforeCloned

GridAfter == GridOf(last.target)

MoveMade == last.op = "move"

SourcePiece == getGamePieceByCoordinate(GridBefore, last.log[1].from)

\* C18: moveGamePiece with an empty source cell leaves every cell as it
\* was, the destination cell included; with an occupied source cell the
\* destination holds the piece that was at the source, the source cell is
\* cleared, and every other cell is as it was.
C18_MoveGamePiece ==
    MoveMade =>
        IF SourcePiece = Null
        THEN GridAfter = GridBefore
        ELSE \A coordinate \in Coordinates(size) :
                getGamePieceByCoordinate(GridAfter, coordinate) =
                    IF coordinate = last.log[1].to THEN SourcePiece
                    ELSE IF coordinate = last.log[1].from THEN Null
                    ELSE getGamePieceByCoordinate(GridBefore, coordinate)

\* a piece was moved onto another piece, after a move from an empty cell
\* onto a piece
C18_Witness ==
    /\ MoveMade
    /\ SourcePiece # Null
    /\ last.log[1].from # last.log[1].to
    /\ getGamePieceByCoordinate(GridBefore, last.log[1].to) # Null
    /\ last.prevOp = "move"

(***************************************************************************)
(* The agent on drawn boards: one call of recommendNextMove.               *)
(***************************************************************************)
Recommend ==
    /\ last.n < 1
    /\ \E r \in {recommendNextMove(grid, heap, size)} :
           /\ heap' = r.heap
           /\ last' = Operation("recommend", "board", r.recommendedMove, FALSE, <<>>)
    /\ UNCHANGED <<size, grid, cloned, status, listening, messages>>

InitAgent == InitDrawn(SmallSize)

NextAgent == Recommend

SpecAgent == InitAgent /\ [][NextAgent]_vars

\* the directions whose shift changes the board the agent was given
MovingDirections ==
    {direction \in DirectionSet :
        shift(last.beforeGrid, last.beforeHeap, size, direction).hasMoved}

\* C6: on a board where some direction's shift changes the board,
\* recommendNextMove returns a direction whose shift returns true; it
\* returns null only when no direction changes the board.
C6_NeverRecommendsNoOp ==
    last.op = "recommend" =>
        /\ MovingDirections # {} => last.direction \in MovingDirections
        /\ last.direction = "null" => MovingDirections = {}

\* C6 witness: a recommendation on a board where some directions change
\* the board and the first direction tried does not
C6_Witness ==
    /\ last.op = "recommend"
    /\ ShiftDirection[1] \notin MovingDirections
    /\ last.direction \in MovingDirections

\* C7: recommendNextMove leaves the cells and the piece values of the board
\* it is given unchanged; whatever the search mutates is a piece allocated
\* during the search (a piece of a clone).
C7_AgentLeavesBoardUnchanged ==
    last.op = "recommend" =>
        /\ grid = last.beforeGrid
        /\ \A piece \in 1..Len(last.beforeHeap) : heap[piece] = last.beforeHeap[piece]

\* C7 witness: a recommendation whose search shifted and merged pieces of
\* clones of a board holding two equal adjacent pieces
C7_Witness ==
    /\ last.op = "recommend"
    /\ last.direction # "null"
    /\ Len(heap) > Len(last.beforeHeap)
    /\ \E direction \in DirectionSet :
          \E i \in 1..Len(shift(grid, heap, size, direction).log) :
              shift(grid, heap, size, direction).log[i].merge

\* the expectimax value of a direction on the board the agent was given
DirectionValue(direction) ==
    LET valueOf(shifted) ==
            expectimaxNode(shifted.grid, shifted.heap, size, SearchDepth, FALSE).value
    IN  valueOf(shiftClone(last.beforeGrid, last.beforeHeap, size, direction))

\* the directions that change the board, in the order they are tried
MovingIndices == {i \in 1..Len(ShiftDirection) : ShiftDirection[i] \in MovingDirections}

\* C23: recommendNextMove returns the direction that changes the board and
\* has the greatest expectimax value, the first such direction in the order
\* Down, Left, Right, Up when several have the greatest value.
C23_GreatestValueFirstOfTies ==
    (last.op = "recommend" /\ MovingDirections # {}) =>
        \E i \in MovingIndices :
            /\ last.direction = ShiftDirection[i]
            /\ \A j \in MovingIndices :
                  /\ ~RatLess(DirectionValue(ShiftDirection[i]),
                              DirectionValue(ShiftDirection[j]))
                  /\ j < i => RatLess(DirectionValue(ShiftDirection[j]),
                                      DirectionValue(ShiftDirection[i]))

\* the recommended direction has a lesser direction before it and a
\* direction of the same value after it
C23_Witness ==
    /\ last.op = "recommend"
    /\ \E i, j, k \in MovingIndices :
          /\ j < i /\ i < k
          /\ last.direction = ShiftDirection[i]
          /\ RatLess(DirectionValue(ShiftDirection[j]), DirectionValue(ShiftDirection[i]))
          /\ DirectionValue(ShiftDirection[k]) = DirectionValue(ShiftDirection[i])

\* the calls of #expectimaxNode the last recommendNextMove made
NodesSearched == recommendNodes(last.beforeGrid, last.beforeHeap, size)

\* C19: no call of #expectimaxNode made by recommendNextMove is more than
\* searchDepth node transitions below the root.
C19_DepthBoundedBySearchDepth ==
    last.op = "recommend" =>
        \A node \in NodesSearched : node.level <= SearchDepth

(***************************************************************************)
(* The nodes of the search on drawn boards: one call of #expectimaxNode    *)
(* with a depth and a turn, or one call of recommendNextMove.              *)
(***************************************************************************)
ExpectimaxNode(depth, isPlayerTurn) ==
    /\ last.n < 1
    /\ \E node \in {expectimaxNode(grid, heap, size, depth, isPlayerTurn)} :
           /\ heap' = node.heap
           /\ last' = Operation("expectimaxNode", "board", "none", FALSE,
                                <<[depth |-> depth, isPlayerTurn |-> isPlayerTurn,
                                   value |-> node.value]>>)
    /\ UNCHANGED <<size, grid, cloned, status, listening, messages>>

InitNode == InitDrawn(SmallSize)

NextNode ==
    \/ \E depth \in 0..SearchDepth, isPlayerTurn \in BOOLEAN :
          ExpectimaxNode(depth, isPlayerTurn)
    \/ Recommend

SpecNode == InitNode /\ [][NextNode]_vars

\* the last call was of a max node on a board no direction changes
MaxNodeNothingMoves ==
    /\ last.op = "expectimaxNode"
    /\ last.log[1].isPlayerTurn
    /\ movedClones(last.beforeGrid, last.beforeHeap, size) = {}

\* at a max node where no direction changes the board, the value of the
\* node is the static evaluation of the board
MaxNodeFallsBack ==
    MaxNodeNothingMoves =>
        last.log[1].value = Rat(evaluateBoard(last.beforeGrid, last.beforeHeap, size), 1)

\* the max nodes of a search by recommendNextMove(board) that have valid
\* moves and that no direction changes
FallbackNodes(g, h, n) ==
    {node \in recommendNodes(g, h, n) :
        node.isPlayerTurn /\ node.hasValidMoves /\ ~node.canMove}

\* C20 (reachable fallback): a max node where no direction changes the board has the
\* static evaluation as its value, and the search recommendNextMove makes
\* on some board reaches such a node whose board has valid moves.
C20_FallbackReachable ==
    /\ MaxNodeFallsBack
    /\ \E n \in 1..SmallSize : \E valueGrid \in ValueGrids(n, DrawnValues) :
          FallbackNodes(BoardOfValues(valueGrid, n).grid,
                        BoardOfValues(valueGrid, n).heap, n) # {}

\* C20 (unreached fallback): a max node where no direction changes the board has the
\* static evaluation as its value, and no search made by recommendNextMove
\* reaches such a node whose board has valid moves.
C20_FallbackNeverReached ==
    /\ MaxNodeFallsBack
    /\ last.op = "recommend" =>
          FallbackNodes(last.beforeGrid, last.beforeHeap, size) = {}

\* a max node was evaluated, below depth 0, on a board that has valid moves
\* and that no direction changes
C20_Witness ==
    /\ MaxNodeNothingMoves
    /\ last.log[1].depth > 0
    /\ hasValidMoves(last.beforeGrid, last.beforeHeap, size)

(***************************************************************************)
(* #expectimaxNode on boards that may hold the target value, as the nodes  *)
(* of a search do after a merge.                                           *)
(***************************************************************************)
InitTarget ==
    /\ size \in 1..SmallSize
    /\ \E valueGrid \in ValueGrids(size, DrawnValues \cup {gameWinValue}) :
          LET b == BoardOfValues(valueGrid, size)
          IN  grid = b.grid /\ heap = b.heap
    /\ cloned = <<>>
    /\ status = "null"
    /\ listening = FALSE
    /\ messages = 0
    /\ last = NoOperation

NextTarget ==
    \E depth \in 0..SearchDepth, isPlayerTurn \in BOOLEAN :
        ExpectimaxNode(depth, isPlayerTurn)

SpecTarget == InitTarget /\ [][NextTarget]_vars

NodeCalled == last.op = "expectimaxNode"

\* the board of the node holds a piece of the target value
HoldsTarget(g, h, n) == gameWinValue \in {ValueAt(g, h, co) : co \in Coordinates(n)}

\* the conditions under which the node is evaluated statically
NodeStatic(g, h, n, depth, isPlayerTurn) ==
    \/ depth = 0
    \/ ~hasValidMoves(g, h, n)
    \/ (g # GameBoard(n) /\ findMaxValue(g, h, n) = gameWinValue)
    \/ (~isPlayerTurn /\ Len(getEmptyCoordinates(g, n)) = 0)
    \/ (isPlayerTurn /\ \A direction \in DirectionSet : ~shift(g, h, n, direction).hasMoved)

\* the node made no clone and no call of itself
NodeNotExpanded ==
    /\ heap = last.beforeHeap
    /\ searchNodes(last.beforeGrid, last.beforeHeap, size, last.log[1].depth,
                   last.log[1].isPlayerTurn, 0)
         = {searchNode(last.beforeGrid, last.beforeHeap, size, last.log[1].depth,
                       last.log[1].isPlayerTurn, 0)}

NodeExpanded ==
    /\ heap # last.beforeHeap
    /\ \E node \in searchNodes(last.beforeGrid, last.beforeHeap, size, last.log[1].depth,
                                last.log[1].isPlayerTurn, 0) : node.level = 1

\* C21: a node is evaluated statically, expanding no child, exactly when
\* its depth is 0, its board has no valid moves, the greatest value of its
\* board is the target value, it is a chance node without an empty cell, or
\* it is a max node no direction moves; otherwise it is expanded.  A board
\* that holds the target value is not expanded.
C21_TerminalTest ==
    NodeCalled =>
        /\ IF NodeStatic(last.beforeGrid, last.beforeHeap, size, last.log[1].depth,
                         last.log[1].isPlayerTurn)
           THEN /\ NodeNotExpanded
                /\ last.log[1].value =
                       Rat(evaluateBoard(last.beforeGrid, last.beforeHeap, size), 1)
           ELSE NodeExpanded
        /\ HoldsTarget(last.beforeGrid, last.beforeHeap, size) => NodeNotExpanded

\* a node with depth left whose board has valid moves, an empty cell and
\* the target value was evaluated statically
C21_Witness ==
    /\ NodeCalled
    /\ last.log[1].depth > 0
    /\ hasValidMoves(last.beforeGrid, last.beforeHeap, size)
    /\ Len(getEmptyCoordinates(last.beforeGrid, size)) > 0
    /\ HoldsTarget(last.beforeGrid, last.beforeHeap, size)
    /\ \E direction \in DirectionSet :
          shift(last.beforeGrid, last.beforeHeap, size, direction).hasMoved
    /\ NodeNotExpanded

\* the last call was of a chance node that is not terminal
ChanceNodeCalled ==
    /\ NodeCalled
    /\ ~last.log[1].isPlayerTurn
    /\ ~isTerminalNode(last.beforeGrid, last.beforeHeap, size, last.log[1].depth)

EmptyBefore == getEmptyCoordinates(last.beforeGrid, size)

\* the value of the max node on the board with a piece of the value placed
\* at the coordinate of a clone
ChildValue(coordinate, value) ==
    LET valueOf(child) ==
            expectimaxNode(child.grid, child.heap, size, last.log[1].depth - 1, TRUE).value
    IN  valueOf(placedClone(last.beforeGrid, last.beforeHeap, size, coordinate, value))

\* the sum, over the first k empty coordinates, of 0.9/n times the value
\* with a 2 and 0.1/n times the value with a 4
RECURSIVE WeightedSum(_)
WeightedSum(k) ==
    IF k = 0 THEN Rat(0, 1)
    ELSE RatAdd(RatAdd(WeightedSum(k - 1),
                       RatTimes(9, 10 * Len(EmptyBefore), ChildValue(EmptyBefore[k], 2))),
                RatTimes(1, 10 * Len(EmptyBefore), ChildValue(EmptyBefore[k], 4)))

\* the sum of the weights 0.9/n and 0.1/n over the first k empty coordinates
RECURSIVE SumOfWeights(_)
SumOfWeights(k) ==
    IF k = 0 THEN Rat(0, 1)
    ELSE RatAdd(RatAdd(SumOfWeights(k - 1), Rat(9, 10 * Len(EmptyBefore))),
                Rat(1, 10 * Len(EmptyBefore)))

ChildrenOfLast == placedClones(last.beforeGrid, last.beforeHeap, size)

\* C22: a chance node that is not terminal and has n >= 1 empty cells
\* expands 2n children: for each empty coordinate a fresh clone with a 2
\* and a fresh clone with a 4 placed there, each a max node one level of
\* depth lower; its value is the sum of their values weighted 0.9/n and
\* 0.1/n, the weights sum to 1, and its own board is not modified.
C22_ChanceNodeExpansion ==
    (ChanceNodeCalled /\ Len(EmptyBefore) >= 1) =>
        /\ Cardinality(ChildrenOfLast) = 2 * Len(EmptyBefore)
        /\ \A i \in 1..Len(EmptyBefore), value \in {2, 4} :
              \E child \in ChildrenOfLast :
                 /\ Values(child.grid, child.heap) =
                       [ValuesBefore EXCEPT ![EmptyBefore[i].rowIndex + 1]
                                             [EmptyBefore[i].columnIndex + 1] = value]
                 /\ PiecesOf(child.grid) \cap PiecesOf(last.beforeGrid) = {}
        /\ \A node \in searchNodes(last.beforeGrid, last.beforeHeap, size,
                                    last.log[1].depth, FALSE, 0) :
              node.level = 1 =>
                  (node.isPlayerTurn /\ node.depth = last.log[1].depth - 1)
        /\ last.log[1].value = WeightedSum(Len(EmptyBefore))
        /\ SumOfWeights(Len(EmptyBefore)) = Rat(1, 1)
        /\ grid = last.beforeGrid
        /\ ValuesAfter = ValuesBefore

\* a chance node with depth left for its children to move, on a board with
\* a piece and two empty cells or more, whose value is not its board's
\* static evaluation
C22_Witness ==
    /\ ChanceNodeCalled
    /\ last.log[1].depth >= 2
    /\ Len(EmptyBefore) >= 2
    /\ PiecesOf(last.beforeGrid) # {}
    /\ last.log[1].value # Rat(evaluateBoard(last.beforeGrid, last.beforeHeap, size), 1)

(***************************************************************************)
(* #evaluateBoard on drawn boards.                                         *)
(***************************************************************************)
EvaluateBoard ==
    /\ last.n < 1
    /\ last' = Operation("evaluateBoard", "board", "none", FALSE,
                         <<[merge |-> FALSE, score |-> evaluateBoard(grid, heap, size)]>>)
    /\ UNCHANGED <<size, grid, heap, cloned, status, listening, messages>>

InitEvaluate == InitDrawn(MaxSize)

NextEvaluate == EvaluateBoard

SpecEvaluate == InitEvaluate /\ [][NextEvaluate]_vars

\* log2 of a power of two
Log2(v) == CHOOSE e \in 0..v : 2 ^ e = v

HasPiece(co) == ValueAt(grid, heap, co) # 0

\* |log2 a - log2 b| for two cells that both hold a piece, 0 otherwise
LogDistance(c1, c2) ==
    IF HasPiece(c1) /\ HasPiece(c2)
    THEN Abs(Log2(ValueAt(grid, heap, c1)) - Log2(ValueAt(grid, heap, c2)))
    ELSE 0

\* the sum of LogDistance over the ordered pairs of adjacent cells whose
\* first cell is among the first k cells
RECURSIVE NeighbourSum(_)
NeighbourSum(k) ==
    IF k = 0 THEN 0
    ELSE LET cell == [rowIndex |-> (k - 1) \div size, columnIndex |-> (k - 1) % size]
             RECURSIVE over(_)
             over(S) == IF S = {} THEN 0
                        ELSE LET c == CHOOSE x \in S : TRUE
                             IN  LogDistance(cell, c) + over(S \ {c})
         IN  NeighbourSum(k - 1) + over({c \in Coordinates(size) : Adjacent(cell, c)})

\* every adjacent pair counted once
SmoothnessOfBoard == -(NeighbourSum(size * size) \div 2)

\* log2 step from cell p to cell p + 1 of a line, 0 unless both hold a piece
LineStep(direction, line, p) ==
    LET a == LineCell(direction, size, line, p)
        b == LineCell(direction, size, line, p + 1)
    IN  IF HasPiece(a) /\ HasPiece(b)
        THEN Log2(ValueAt(grid, heap, b)) - Log2(ValueAt(grid, heap, a))
        ELSE 0

\* the sum of the increasing (sign 1) or decreasing (sign -1) steps among
\* the first k steps of a line
RECURSIVE StepSum(_, _, _, _)
StepSum(direction, line, sign, k) ==
    IF k = 0 THEN 0
    ELSE StepSum(direction, line, sign, k - 1)
         + (IF sign * LineStep(direction, line, k - 1) > 0
            THEN sign * LineStep(direction, line, k - 1) ELSE 0)

LineMonotonicity(direction, line) ==
    IF StepSum(direction, line, 1, size - 1) >= StepSum(direction, line, -1, size - 1)
    THEN StepSum(direction, line, 1, size - 1)
    ELSE StepSum(direction, line, -1, size - 1)

\* rows read left to right and columns read top to bottom, the first k of each
RECURSIVE MonotonicityOfLines(_)
MonotonicityOfLines(k) ==
    IF k = 0 THEN 0
    ELSE MonotonicityOfLines(k - 1) + LineMonotonicity("Left", k - 1)
         + LineMonotonicity("Up", k - 1)

MaxValueOfBoard ==
    IF \E co \in Coordinates(size) : HasPiece(co)
    THEN CHOOSE v \in {ValueAt(grid, heap, co) : co \in Coordinates(size)} :
            \A co \in Coordinates(size) : ValueAt(grid, heap, co) <= v
    ELSE 0

Corners ==
    {co \in Coordinates(size) :
        co.rowIndex \in {0, size - 1} /\ co.columnIndex \in {0, size - 1}}

CornerBonusOfBoard ==
    IF \E co \in Corners : HasPiece(co) /\ ValueAt(grid, heap, co) = MaxValueOfBoard
    THEN 1 ELSE 0

EmptyCellCount == Cardinality({co \in Coordinates(size) : ~HasPiece(co)})

\* C27: the static evaluation of a board is 350 * the number of empty
\* cells + 3 * smoothness + 10 * monotonicity + 300 * cornerBonus + the
\* greatest value, with smoothness minus the sum of the log2 distances of
\* the adjacent pairs of pieces, each pair once, monotonicity the sum over
\* the rows and columns of the larger of the increasing and the decreasing
\* step sums, cornerBonus 1 exactly when a corner holds a piece of the
\* greatest value, and the greatest value 0 on an empty board.
C27_StaticEvaluation ==
    last.op = "evaluateBoard" =>
        /\ last.log[1].score =
              350 * EmptyCellCount + 3 * SmoothnessOfBoard
              + 10 * MonotonicityOfLines(size) + 300 * CornerBonusOfBoard
              + MaxValueOfBoard
        /\ SmoothnessOfBoard <= 0
        /\ evaluateBoardSmoothness(grid, heap, size) = SmoothnessOfBoard
        /\ evaluateBoardMonotonicity(grid, heap, size) = MonotonicityOfLines(size)

\* a board of size 3 was evaluated whose greatest value is in no corner,
\* with unequal neighbours and a line that both rises and falls
C27_Witness ==
    /\ last.op = "evaluateBoard"
    /\ size = 3
    /\ EmptyCellCount >= 1
    /\ CornerBonusOfBoard = 0
    /\ SmoothnessOfBoard < 0
    /\ \E line \in Indices :
          /\ StepSum("Left", line, 1, size - 1) > 0
          /\ StepSum("Left", line, -1, size - 1) > 0

(***************************************************************************)
(* The game: GameController's handlers on the board of the page.           *)
(***************************************************************************)
\* Pieces no board refers to are garbage, and references are only ever
\* compared for equality: a state is kept with its live pieces numbered in
\* row-major order of their cells.
Renumbered(g, h, n) ==
    LET occupied ==
            SelectSeq([k \in 1..(n * n) |->
                          [rowIndex |-> (k - 1) \div n, columnIndex |-> (k - 1) % n]],
                      LAMBDA co : getGamePieceByCoordinate(g, co) # Null)
        rank(co) == CHOOSE i \in 1..Len(occupied) : occupied[i] = co
    IN  [grid |-> [r \in 1..n |-> [c \in 1..n |->
                      IF g[r][c] = Null THEN Null
                      ELSE rank([rowIndex |-> r - 1, columnIndex |-> c - 1])]],
         heap |-> [i \in 1..Len(occupied) |->
                      h[getGamePieceByCoordinate(g, occupied[i])]]]

\* the record of a controller operation (operations are not counted)
ControllerOperation(op, direction, hasMoved, log) ==
    [Operation(op, "board", direction, hasMoved, log) EXCEPT !.n = 0]

\* controller.startGame().  main.ts calls it once, on the controller it has
\* just built (no listener registered, #status null); the method itself
\* throws only when #status is InProgress.
StartGame ==
    /\ ~listening
    /\ status = "null"
    /\ status # "InProgress"
    /\ \E count \in startingPieceCounts :
          \E placed \in placeNewPieces(grid, heap, size, count) :
          \E b \in {Renumbered(placed.grid, placed.heap, size)} :
              grid' = b.grid /\ heap' = b.heap
    /\ listening' = TRUE
    /\ last' = ControllerOperation("startGame", "none", FALSE, <<>>)
    /\ UNCHANGED <<size, cloned, status, messages>>

\* an #executeMove that reports the terminal status but leaves the
\* listeners registered
executeMoveKeepingListeners(op, direction, h) ==
    \E shifted \in {shift(grid, h, size, direction)} :
        IF shifted.hasMoved
        THEN \E placed \in placeNewPieces(shifted.grid, shifted.heap, size, 1) :
             \E b \in {Renumbered(placed.grid, placed.heap, size)} :
             \E newStatus \in
                    {IF /\ \E co \in Coordinates(size) :
                              getGamePieceByCoordinate(placed.grid, co) # Null
                        /\ findMaxValue(placed.grid, placed.heap, size) = gameWinValue
                     THEN "Won"
                     ELSE IF ~hasValidMoves(placed.grid, placed.heap, size)
                     THEN "Lost" ELSE status} :
                /\ grid' = b.grid
                /\ heap' = b.heap
                /\ status' = newStatus
                /\ IF newStatus \in {"Won", "Lost"}
                   THEN listening' = listening /\ messages' = messages + 1
                   ELSE UNCHANGED <<listening, messages>>
                /\ last' = ControllerOperation(op, direction, TRUE, shifted.log)
        ELSE /\ last' = ControllerOperation(op, direction, FALSE, <<>>)
             /\ UNCHANGED <<grid, heap, status, listening, messages>>

\* #executeMove(direction), carried out on the heap h (the heap as the
\* caller left it); op names the handler that called it
executeMove(op, direction, h) ==
    \E shifted \in {shift(grid, h, size, direction)} :
        IF shifted.hasMoved
        THEN \E placed \in placeNewPieces(shifted.grid, shifted.heap, size, 1) :
             \E b \in {Renumbered(placed.grid, placed.heap, size)} :
             \E newStatus \in
                    {IF /\ \E co \in Coordinates(size) :
                              getGamePieceByCoordinate(placed.grid, co) # Null
                        /\ findMaxValue(placed.grid, placed.heap, size) = gameWinValue
                     THEN "Won"
                     ELSE IF ~hasValidMoves(placed.grid, placed.heap, size)
                     THEN "Lost" ELSE status} :
                /\ grid' = b.grid
                /\ heap' = b.heap
                /\ status' = newStatus
                /\ IF newStatus \in {"Won", "Lost"}
                   THEN listening' = FALSE /\ messages' = messages + 1
                   ELSE UNCHANGED <<listening, messages>>
                /\ last' = ControllerOperation(op, direction, TRUE, shifted.log)
        ELSE /\ last' = ControllerOperation(op, direction, FALSE, <<>>)
             /\ UNCHANGED <<grid, heap, status, listening, messages>>

\* #onArrowKeyDown for an arrow key
ArrowKeyDown(direction) ==
    /\ listening
    /\ executeMove("key", direction, heap)
    /\ UNCHANGED <<size, cloned>>

\* #onAiRecommendationClick; window.confirm returns true or false
AiRecommendationClick ==
    /\ listening
    /\ \E r \in {recommendNextMove(grid, heap, size)} :
          \/ /\ r.recommendedMove # "null"
             /\ executeMove("ai", r.recommendedMove, r.heap)
          \/ \E b \in {Renumbered(grid, r.heap, size)} :
                /\ grid' = b.grid
                /\ heap' = b.heap
                /\ last' = ControllerOperation("ai", r.recommendedMove, FALSE, <<>>)
                /\ UNCHANGED <<status, listening, messages>>
    /\ UNCHANGED <<size, cloned>>

Init ==
    /\ size = gameBoardGridSize
    /\ grid = GameBoard(size)
    /\ heap = <<>>
    /\ cloned = <<>>
    /\ status = "null"
    /\ listening = FALSE
    /\ messages = 0
    /\ last = NoOperation

\* a key press or a click of the recommendation button while the
\* controller's listeners are not registered (before startGame, or after
\* #executeMove removed them): no handler runs
InputWithoutListener ==
    /\ ~listening
    /\ last' = ControllerOperation("ignored", "none", FALSE, <<>>)
    /\ UNCHANGED <<size, grid, heap, cloned, status, listening, messages>>

Next ==
    \/ StartGame
    \/ InputWithoutListener
    \/ \E direction \in DirectionSet : ArrowKeyDown(direction)
    \/ AiRecommendationClick

Spec == Init /\ [][Next]_vars

RECURSIVE IsPowerOfTwo(_)
IsPowerOfTwo(v) == v = 1 \/ (v > 1 /\ v % 2 = 0 /\ IsPowerOfTwo(v \div 2))

\* C3: in every state of a game every piece value is a power of two and at
\* least 2.
C3_PowerOfTwo ==
    \A co \in Coordinates(size) :
        LET v == ValueAt(grid, heap, co)
        IN  v # 0 => (v >= 2 /\ IsPowerOfTwo(v))

\* C3 witness: a move of the game merged pieces, a piece was spawned after
\* it, and the board holds a piece of value 8 or more
C3_Witness ==
    /\ last.op \in {"key", "ai"}
    /\ last.hasMoved
    /\ \E i \in 1..Len(last.log) : last.log[i].merge
    /\ findMaxValue(grid, heap, size) >= 8
    /\ Cardinality({co \in Coordinates(size) : ValueAt(grid, heap, co) # 0}) >= 2

\* the last input was a move the controller carried out (a shift that
\* returned true, followed by the spawn and the status update)
MoveDone == last.op \in {"key", "ai"} /\ last.hasMoved

\* no shift in any of the four directions would change the board
NoShiftMoves ==
    \A direction \in DirectionSet : ~shift(grid, heap, size, direction).hasMoved

HoldsWinValue == \E co \in Coordinates(size) : ValueAt(grid, heap, co) = gameWinValue

\* C12: after a successful move and its spawn the status is Lost only if no
\* shift in any direction would change the board, and it is Lost whenever no
\* shift would change the board and the win condition does not hold.
C12_LossDetection ==
    MoveDone =>
        /\ status = "Lost" => NoShiftMoves
        /\ (NoShiftMoves /\ ~HoldsWinValue) => status = "Lost"

\* C12 witness: a move left a full board on which no shift moves, and the
\* status is Lost
C12_Witness ==
    /\ MoveDone
    /\ NoShiftMoves
    /\ status = "Lost"
    /\ messages = 1

\* C13: whenever a move leaves a piece of value gameWinValue on the board
\* the status after the move is Won, also when no valid move is left; the
\* status is one value, never both Won and Lost.
C13_WinDetection ==
    MoveDone =>
        /\ HoldsWinValue => status = "Won"
        /\ status = "Won" => HoldsWinValue
        /\ status \in {"null", "Won", "Lost"}

\* C13 witness: a move produced a piece of value gameWinValue on a board
\* that is full with no valid move left, and the status is Won
C13_Witness ==
    /\ MoveDone
    /\ HoldsWinValue
    /\ ~hasValidMoves(grid, heap, size)
    /\ status = "Won"

Terminal == status \in {"Won", "Lost"}

\* C14: renderMessage is called at most once, and once the status is Won or
\* Lost no key press and no recommendation click changes the board or the
\* status.
C14_TerminalAbsorbing ==
    [][/\ messages' <= 1
       /\ Terminal => (/\ Values(grid', heap') = Values(grid, heap)
                       /\ status' = status
                       /\ messages' = messages)]_vars

\* C14 witness: an input arrived after the status became Won or Lost and
\* the message was rendered
C14_Witness ==
    /\ Terminal
    /\ messages = 1
    /\ last.op = "ignored"
    /\ last.prevOp \in {"key", "ai"}

\* the value grids that differ from a value grid in exactly one cell, empty
\* there and holding 2 or 4 in the other
OneSpawnInto(values, n) ==
    {[values EXCEPT ![cell[1]][cell[2]] = v] :
        cell \in {cell \in (1..n) \X (1..n) : values[cell[1]][cell[2]] = 0},
        v \in {2, 4}}

\* C15: on each input the controller first shifts the board; when the
\* shift returns true exactly one new piece, of value 2 or 4, is placed in
\* a cell that was empty after the shift; when it returns false no piece is
\* placed and the board, the status and the rendered message are unchanged.
C15_SpawnFollowsSuccessOnly ==
    [][last'.op \in {"key", "ai"} =>
          IF last'.hasMoved
          THEN \E shifted \in {shift(grid, heap, size, last'.direction)} :
                  /\ shifted.hasMoved
                  /\ Values(grid', heap')
                        \in OneSpawnInto(Values(shifted.grid, shifted.heap), size)
          ELSE /\ Values(grid', heap') = Values(grid, heap)
               /\ status' = status
               /\ messages' = messages
               /\ last'.op = "key" =>
                     ~shift(grid, heap, size, last'.direction).hasMoved]_vars

\* C15 witness: a key press whose shift returned false, right after a move
\* that shifted the board and spawned a piece
C15_Witness ==
    /\ last.op = "key"
    /\ ~last.hasMoved
    /\ last.prevOp \in {"key", "ai"}
    /\ last.prevHasMoved
    /\ PieceCount(grid, size) >= 2

\* the shift of the last move, made again on the board as it was
ShiftOfLastMove == shift(last.beforeGrid, last.beforeHeap, size, last.direction)

\* C29: the shift of a successful move leaves an empty cell, and the spawn
\* that follows places exactly one piece.
C29_EmptyCellAfterShift ==
    MoveDone =>
        \E shifted \in {ShiftOfLastMove} :
            /\ shifted.hasMoved
            /\ Len(getEmptyCoordinates(shifted.grid, size)) >= 1
            /\ PieceCount(grid, size) = PieceCount(shifted.grid, size) + 1

\* a move on a full board: its merge left one empty cell and the spawn
\* filled it
C29_Witness ==
    /\ MoveDone
    /\ PieceCount(last.beforeGrid, size) = size * size
    /\ Len(getEmptyCoordinates(ShiftOfLastMove.grid, size)) = 1
    /\ PieceCount(grid, size) = size * size

(***************************************************************************)
(* getRandomEmptyCoordinates on drawn boards: one call with a drawn count; *)
(* last.log holds the count and the coordinates returned.                  *)
(***************************************************************************)
GetRandomEmptyCoordinates(count) ==
    /\ last.n < 1
    /\ \E randomCoordinates \in getRandomEmptyCoordinates(grid, size, count) :
          last' = Operation("getRandomEmptyCoordinates", "board", "none", FALSE,
                            <<[count |-> count, coordinates |-> randomCoordinates]>>)
    /\ UNCHANGED <<size, grid, heap, cloned, status, listening, messages>>

InitRandom == InitDrawn(SmallSize)

NextRandom == \E count \in 0..MaxCount : GetRandomEmptyCoordinates(count)

SpecRandom == InitRandom /\ [][NextRandom]_vars

\* C16: getRandomEmptyCoordinates(count) returns exactly min(count,
\* emptyCount) coordinates, pairwise distinct, each of an empty cell; on a
\* board without empty cells it returns the empty sequence.
C16_RandomEmptyCoordinates ==
    last.op = "getRandomEmptyCoordinates" =>
        LET count == last.log[1].count
            coordinates == last.log[1].coordinates
            emptyCount == Len(getEmptyCoordinates(grid, size))
        IN  /\ Len(coordinates) = Min(count, emptyCount)
            /\ \A i, j \in 1..Len(coordinates) :
                  i # j => coordinates[i] # coordinates[j]
            /\ \A i \in 1..Len(coordinates) :
                  /\ isValidGridCoordinate(size, coordinates[i])
                  /\ getGamePieceByCoordinate(grid, coordinates[i]) = Null
            /\ emptyCount = 0 => coordinates = <<>>

(***************************************************************************)
(* The accessors on drawn boards, called once with coordinates inside and  *)
(* outside the board; last.log holds the coordinates and whether the call  *)
(* threw.                                                                  *)
(***************************************************************************)
Accessed(op, coordinates, outcome) ==
    /\ grid' = outcome.grid
    /\ last' = Operation(op, "board", "none", FALSE,
                         <<[coordinates |-> coordinates, threw |-> outcome.threw,
                            value |-> outcome.value]>>)
    /\ UNCHANGED <<size, cloned, status, listening, messages>>

AccessGet(coordinate) ==
    /\ last.n < 1
    /\ Accessed("getGamePieceByCoordinate", <<coordinate>>,
                getGamePieceByCoordinateOutcome(grid, coordinate))
    /\ heap' = heap

AccessPlace(value, coordinate) ==
    /\ last.n < 1
    /\ heap' = GamePiece(heap, value)
    /\ Accessed("placeGamePiece", <<coordinate>>,
                placeGamePieceOutcome(grid, Len(heap) + 1, coordinate))

AccessRemove(coordinate) ==
    /\ last.n < 1
    /\ Accessed("removeGamePiece", <<coordinate>>,
                removeGamePieceOutcome(grid, coordinate))
    /\ heap' = heap

AccessMove(fromCoordinate, toCoordinate) ==
    /\ last.n < 1
    /\ Accessed("moveGamePiece", <<fromCoordinate, toCoordinate>>,
                moveGamePieceOutcome(grid, fromCoordinate, toCoordinate))
    /\ heap' = heap

InitAccess == InitDrawn(SmallSize)

NextAccess ==
    \/ \E coordinate \in AnyCoordinates(size) : AccessGet(coordinate)
    \/ \E value \in DrawnValues, coordinate \in AnyCoordinates(size) :
          AccessPlace(value, coordinate)
    \/ \E coordinate \in AnyCoordinates(size) : AccessRemove(coordinate)
    \/ \E fromCoordinate, toCoordinate \in AnyCoordinates(size) :
          AccessMove(fromCoordinate, toCoordinate)

SpecAccess == InitAccess /\ [][NextAccess]_vars

AccessDone ==
    last.op \in {"getGamePieceByCoordinate", "placeGamePiece", "removeGamePiece",
                 "moveGamePiece"}

\* C17: an accessor called with a coordinate outside the board fails with
\* an error and leaves the board unchanged.
C17_OutOfBoundsFails ==
    (/\ AccessDone
     /\ \E i \in 1..Len(last.log[1].coordinates) :
            ~isValidGridCoordinate(size, last.log[1].coordinates[i]))
        => (last.log[1].threw /\ grid = last.beforeGrid)

(***************************************************************************)
(* The game with startGame as a method that can be called at any time, not *)
(* only once by main.ts, played with the arrow keys.                       *)
(***************************************************************************)
\* controller.startGame(); last.log holds whether the listeners were
\* registered when it was called and whether it threw
StartGameCall ==
    /\ IF status = "InProgress"
       THEN /\ last' = ControllerOperation("startGame", "none", FALSE,
                           <<[merge |-> FALSE, started |-> listening, threw |-> TRUE]>>)
            /\ UNCHANGED <<grid, heap, listening>>
       ELSE /\ \E count \in startingPieceCounts :
                  \E placed \in placeNewPieces(grid, heap, size, count) :
                  \E b \in {Renumbered(placed.grid, placed.heap, size)} :
                      grid' = b.grid /\ heap' = b.heap
            /\ listening' = TRUE
            /\ last' = ControllerOperation("startGame", "none", FALSE,
                           <<[merge |-> FALSE, started |-> listening, threw |-> FALSE]>>)
    /\ UNCHANGED <<size, cloned, status, messages>>

NextRestart ==
    \/ StartGameCall
    \/ InputWithoutListener
    \/ \E direction \in DirectionSet : ArrowKeyDown(direction)

SpecRestart == Init /\ [][NextRestart]_vars

\* C25: startGame called on a controller whose game was started and is not
\* finished throws and places no piece.
C25_StartGameTwiceThrows ==
    (/\ last.op = "startGame"
     /\ last.log[1].started
     /\ status \notin {"Won", "Lost"})
        => (last.log[1].threw /\ ValuesAfter = ValuesBefore)

(***************************************************************************)
(* Boards from their construction: new GameBoard(n) for sizes that are     *)
(* positive, zero or negative, then pieces placed and shifts.  Before the  *)
(* construction, and after a construction that threw, there is no board.   *)
(***************************************************************************)
BoardExists ==
    /\ last.op # "none"
    /\ last.op = "constructor" => ~last.log[1].threw

Construct(n) ==
    /\ last.op = "none"
    /\ \E made \in {GameBoardOutcome(n)} :
          /\ grid' = made.grid
          /\ size' = IF made.threw THEN size ELSE n
          /\ last' = Operation("constructor", "board", "none", FALSE,
                               <<[merge |-> FALSE, size |-> n, threw |-> made.threw]>>)
    /\ UNCHANGED <<heap, cloned, status, listening, messages>>

PlaceOnBoard(value, coordinate) ==
    /\ BoardExists
    /\ last.n < MaxOps + 1
    /\ heap' = GamePiece(heap, value)
    /\ grid' = placeGamePiece(grid, Len(heap) + 1, coordinate)
    /\ last' = Operation("place", "board", "none", FALSE, <<>>)
    /\ UNCHANGED <<size, cloned, status, listening, messages>>

ShiftBoard(direction) ==
    /\ BoardExists
    /\ last.n < MaxOps + 1
    /\ \E r \in {shift(grid, heap, size, direction)} :
          /\ grid' = r.grid
          /\ heap' = r.heap
          /\ last' = Operation("shift", "board", direction, r.hasMoved, r.log)
    /\ UNCHANGED <<size, cloned, status, listening, messages>>

InitConstruct ==
    /\ size = 0
    /\ grid = <<>>
    /\ heap = <<>>
    /\ cloned = <<>>
    /\ status = "null"
    /\ listening = FALSE
    /\ messages = 0
    /\ last = NoOperation

NextConstruct ==
    \/ \E n \in (-1)..SmallSize : Construct(n)
    \/ \E value \in DrawnValues, coordinate \in Coordinates(size) :
          PlaceOnBoard(value, coordinate)
    \/ \E direction \in DirectionSet : ShiftBoard(direction)

SpecConstruct == InitConstruct /\ [][NextConstruct]_vars

\* C26: new GameBoard(n) with n <= 0 fails, so a board that exists has
\* size >= 1.
C26_NonPositiveSizeFails ==
    /\ (last.op = "constructor" /\ last.log[1].size <= 0) => last.log[1].threw
    /\ BoardExists => size >= 1

(***************************************************************************)
(* A play of successful moves: after startGame every step is a key press   *)
(* or an accepted recommendation whose shift returned true.               *)
(***************************************************************************)
SuccessfulKeyDown(direction) == ArrowKeyDown(direction) /\ last'.hasMoved

SuccessfulRecommendation == AiRecommendationClick /\ last'.hasMoved

NextPlay ==
    \/ StartGame
    \/ \E direction \in DirectionSet : SuccessfulKeyDown(direction)
    \/ SuccessfulRecommendation

\* main.ts calls startGame when the page is loaded; after that it is the
\* player who goes on, or not
SpecPlay == Init /\ [][NextPlay]_vars /\ WF_vars(StartGame)

\* the game is being played and some direction moves the board
SomeMoveLeft ==
    /\ listening
    /\ \E direction \in DirectionSet : shift(grid, heap, size, direction).hasMoved

SumOnBoard == SumOfValues(grid, heap, size, size * size)

\* C31: a play of successful moves reaches the status Won or Lost, unless
\* the player stops while a direction still moves the board; every
\* successful move makes the sum of the values greater, and the sum never
\* exceeds the number of cells times the target value.
C31_GameTerminates ==
    /\ <>(status \in {"Won", "Lost"}) \/ <>[]SomeMoveLeft
    /\ [][last'.op \in {"key", "ai"} =>
            /\ SumOfValues(grid', heap', size, size * size) > SumOnBoard
            /\ SumOfValues(grid', heap', size, size * size)
                  <= size * size * gameWinValue]_vars

\* a play ended after two successful moves in a row or more, with the
\* status Lost on a full board or the status Won
C31_Witness ==
    /\ status \in {"Won", "Lost"}
    /\ ~listening
    /\ MoveDone
    /\ last.prevOp \in {"key", "ai"}
    /\ last.prevHasMoved
    /\ SumOnBoard >= gameWinValue

(***************************************************************************)
(* The agent called again: after a call of recommendNextMove on a drawn    *)
(* board, a second call on the same board object, whose pieces are now     *)
(* followed in memory by what the first search allocated, or on a clone of *)
(* it, whose pieces are other objects of the same values.                  *)
(***************************************************************************)
RecommendAgain(target) ==
    /\ last.op = "recommend"
    /\ last.n < MaxOps
    /\ \E given \in {IF target = "clone" THEN clone(grid, heap, size)
                      ELSE [grid |-> grid, heap |-> heap]} :
       \E r \in {recommendNextMove(given.grid, given.heap, size)} :
           /\ heap' = r.heap
           /\ last' = Operation("recommend", target, r.recommendedMove, FALSE, <<>>)
    /\ UNCHANGED <<size, grid, cloned, status, listening, messages>>

NextAgain == Recommend \/ \E target \in {"board", "clone"} : RecommendAgain(target)

SpecAgain == InitAgent /\ [][NextAgain]_vars

\* two calls of recommendNextMove were made, one after the other
CalledAgain == last.op = "recommend" /\ last.prevOp = "recommend"

====
